---- MODULE Spec2Model ----
(***************************************************************************)
(* A model of the detection-and-fusion engine of the Solana wash-trading   *)
(* analysis: flow extraction from multi-hop transfers, the pattern         *)
(* detector suites, the heuristic bot scorer and the risk fusion.          *)
(*                                                                         *)
(* The engine is a pipeline of synchronous computations over tables.  Each *)
(* stage has its own specification, whose Init draws the stage's input     *)
(* tables from bounded sets and whose actions are the stage's handlers:    *)
(*   SpecFlow       flow extraction (both extractors)                      *)
(*   SpecRoundtrip  rapid round-trip detection on two wallets              *)
(*   SpecDetect     the two detector suites, run_all_analyses              *)
(*   SpecRiskLevel  the risk-level function of both analyzers              *)
(*   SpecRisk       the per-wallet risk table and the token risk summary   *)
(*   SpecBot        the bot scorer and the classification rule             *)
(*   SpecCircular   circular-pattern detection on three wallets            *)
(*   SpecCycleSearch  the loop over the circuit enumeration, both suites   *)
(*   SpecPipeline   from the flow table to the analyses, empty table too   *)
(*   SpecGini       the concentration metrics of the holder table          *)
(*   SpecVolume     volume concentration, unpriced flows included          *)
(* The data aggregator of the bot detector is concurrent and talks to the  *)
(* data provider; its specifications are                                   *)
(*   SpecRateLimit  _enforce_rate_limit called by the pool's threads       *)
(*   SpecBatch      batch_api_calls: futures collected as they complete    *)
(*   SpecApiCall    api_call with its cache (SpecApiCallFair: the loop     *)
(*                  goes on)                                               *)
(*   SpecAlways429  the three fetch paths against a provider that answers  *)
(*                  429 to every request                                   *)
(*   SpecCacheRace  one cache file saved to and loaded by the pool's       *)
(*                  threads                                                *)
(* The variables of the stages a specification does not run stay idle.     *)
(***************************************************************************)
EXTENDS Integers, Sequences, FiniteSets, TLC

VARIABLES
    pc,              \* position of the run: which handler has returned
    extractor,       \* "detector" (extract_user_flows) or "fetcher" (process_transfers_to_user_flows)
    df,              \* the transfer-hop table, in row order
    user_flows,      \* the UserFlow table, in row order
    suite,           \* "TB" (TransactionBasedWashTradingDetector) or "WTD" (WashTradingDetector)
    results,         \* the detector suite's results: analysis name -> findings
    suspicious,      \* suspicious_addresses / suspicious_wallets
    classification_results, \* BotDetector.classification_results: rows of classified wallets
    top_holders,     \* the whale list handed to create_risk_analysis (<<>>: None or empty)
    holder_metrics,  \* the holder metrics handed to create_risk_analysis (<<>>: None or empty)
    risk_results,    \* RiskScoreAnalyzer.risk_results / CombinedAnalyzer.combined_results
    token_risk_data, \* RiskScoreAnalyzer.token_risk_data
    args,            \* the arguments of the pure function a specification applies
    ret,             \* its return value
    clock,           \* time.time(), in ticks
    request_times,   \* MultiEndpointDataAggregator.request_times: class -> timestamps
    cache,           \* the cache directory: cache key -> file (payload and mtime)
    threads,         \* the threads inside the aggregator: locals and position of each
    batch,           \* batch_api_calls: the calls, the futures and the results list
    http,            \* what the data provider and the limiter have seen (history)
    call             \* the frame of the api_call in progress, and its outcome

vars == <<pc, extractor, df, user_flows, suite, results, suspicious,
          classification_results, top_holders, holder_metrics, risk_results,
          token_risk_data, args, ret,
          clock, request_times, cache, threads, batch, http, call>>

flowVars == <<extractor, df>>
detVars  == <<suite, results, suspicious>>
riskVars == <<classification_results, top_holders, holder_metrics, risk_results, token_risk_data>>
funVars  == <<args, ret>>
netVars  == <<clock, request_times, cache, threads, batch, http, call>>

\* Python's None / pandas' NaN in a column of strings.
NoneVal == "None"

\* bool(x) of an address column value: None and the empty string are falsy.
Truthy(x) == x # NoneVal /\ x # ""

RECURSIVE SumSeq(_)
SumSeq(s) == IF s = <<>> THEN 0 ELSE Head(s) + SumSeq(Tail(s))

RECURSIVE SumOver(_, _)
\* Sum of f[x] over the finite set S.
SumOver(S, f) ==
    IF S = {} THEN 0
    ELSE LET x == CHOOSE y \in S : TRUE IN f[x] + SumOver(S \ {x}, f)

Min2(a, b) == IF a <= b THEN a ELSE b
Max2(a, b) == IF a >= b THEN a ELSE b

\* The rows of a table as a set.
Rows(t) == {t[i] : i \in DOMAIN t}

RECURSIVE SortValues(_, _)
\* DataFrame.sort_values(by), ascending.  Rows with equal keys keep their row
\* order (numpy sorts short arrays by insertion).
SortValues(rows, by) ==
    IF Len(rows) <= 1 THEN rows
    ELSE LET h    == Head(rows)
             rest == SortValues(Tail(rows), by)
         IN SelectSeq(rest, LAMBDA r : r[by] < h[by])
            \o <<h>> \o
            SelectSeq(rest, LAMBDA r : r[by] >= h[by])

\* rows.iloc[::-1]
Reverse(rows) == [i \in 1..Len(rows) |-> rows[Len(rows) + 1 - i]]

(***************************************************************************)
(* FLOW EXTRACTION                                                         *)
(***************************************************************************)

\* Bound of the hop tables: the number of rows.
MaxHops == 2

TxHashes == {1, 2}

INTERMEDIARIES == {"dex", "cex", "dex_aggregator", "bridge", "mixer"}

\* The endpoints a hop is drawn from: two user wallets (one labelled, one
\* without entity type), a DEX pool, and a missing address.
Parties == {
    [address |-> "A", entity_type |-> "individual"],
    [address |-> "B", entity_type |-> NoneVal],
    [address |-> "D", entity_type |-> "dex"],
    [address |-> NoneVal, entity_type |-> NoneVal] }

\* A hop row.  Its USD value is drawn with its log_index, so that the hops of
\* a table have pairwise different values.
Hop(tx, li, from, to) ==
    [transaction_hash |-> tx, log_index |-> li, block_number |-> 100 + tx,
     from_address |-> from.address, from_entity_type |-> from.entity_type,
     to_address |-> to.address, to_entity_type |-> to.entity_type,
     usd_value |-> li]

\* The hop tables of n rows.  The rows arrive in any order relative to their
\* log_index: ascending ("asc") or newest first ("desc", the order of a
\* sortDir=desc query).  A transaction lies in one block.
HopTable(n, t, f, g, order) ==
    [i \in 1..n |-> Hop(t[i], IF order = "asc" THEN i ELSE n + 1 - i, f[i], g[i])]

from_is_intermediary(row) == row.from_entity_type \in INTERMEDIARIES
to_is_intermediary(row) == row.to_entity_type \in INTERMEDIARIES

\* df.dropna(subset=['from_address', 'to_address', 'transaction_hash'])
dropna(rows) ==
    SelectSeq(rows, LAMBDA r : r.from_address # NoneVal /\ r.to_address # NoneVal)

\* The keys of df.groupby('transaction_hash'), which iterates them in ascending order.
GroupKeys(rows) == {r.transaction_hash : r \in Rows(rows)}

RECURSIVE SetToSortedSeq(_)
SetToSortedSeq(S) ==
    IF S = {} THEN <<>>
    ELSE LET m == CHOOSE x \in S : \A y \in S : x <= y
         IN <<m>> \o SetToSortedSeq(S \ {m})

Group(rows, tx) == SelectSeq(rows, LAMBDA r : r.transaction_hash = tx)

\* The position of the first row whose sender is not an intermediary (the
\* forward scan with break), 0 when the scan ends without one.
FirstSenderAny(rows) == IF Len(rows) > 0 THEN 1 ELSE 0
FirstNonIntermediarySender(rows) ==
    LET Q == {i \in DOMAIN rows : ~from_is_intermediary(rows[i])}
    IN IF Q = {} THEN 0 ELSE CHOOSE i \in Q : \A j \in Q : i <= j

\* The position of the last row whose receiver is not an intermediary (the
\* scan over iloc[::-1] with break), 0 when there is none.
LastNonIntermediaryReceiver(rows) ==
    LET Q == {i \in DOMAIN rows : ~to_is_intermediary(rows[i])}
    IN IF Q = {} THEN 0 ELSE CHOOSE i \in Q : \A j \in Q : i >= j

\* One iteration of the loop over the transaction groups: the UserFlow rows
\* (none or one) the group adds.  tx_transfers is the sorted group.
FlowOfGroup(tx_hash, tx_transfers) ==
    LET s == FirstNonIntermediarySender(tx_transfers)
        e == LastNonIntermediaryReceiver(tx_transfers)
        start_wallet == IF s = 0 THEN NoneVal ELSE tx_transfers[s].from_address
        start_entity_type == IF s = 0 THEN NoneVal ELSE tx_transfers[s].from_entity_type
        end_wallet == IF e = 0 THEN NoneVal ELSE tx_transfers[e].to_address
        end_entity_type == IF e = 0 THEN NoneVal ELSE tx_transfers[e].to_entity_type
    IN IF Truthy(start_wallet) /\ Truthy(end_wallet)
       THEN << [transaction_hash |-> tx_hash,
                start_wallet |-> start_wallet,
                end_wallet |-> end_wallet,
                start_entity_type |-> start_entity_type,
                end_entity_type |-> end_entity_type,
                usd_value |-> SumSeq([i \in DOMAIN tx_transfers |-> tx_transfers[i].usd_value]),
                hop_count |-> Len(tx_transfers),
                is_self_transfer |-> (start_wallet = end_wallet)] >>
       ELSE <<>>

RECURSIVE FlowsOfGroups(_, _, _)
\* The loop over the groups, in key order; each group is sorted by the
\* extractor's sort column first.
FlowsOfGroups(rows, keys, by) ==
    IF keys = <<>> THEN <<>>
    ELSE FlowOfGroup(Head(keys), SortValues(Group(rows, Head(keys)), by))
         \o FlowsOfGroups(rows, Tail(keys), by)

\* The column each extractor sorts a transaction's hops by.
DetectorSortColumn == "log_index"
FetcherSortColumn == "block_number"

\* TransactionBasedWashTradingDetector.__init__: load the table, drop the
\* rows with a null address.
DetectorInit ==
    /\ pc = "raw" /\ extractor = "detector"
    /\ df' = dropna(df)
    /\ pc' = "loaded"
    /\ UNCHANGED <<netVars, extractor, user_flows, detVars, riskVars, funVars>>

\* TransactionBasedWashTradingDetector.extract_user_flows
extract_user_flows ==
    /\ pc = "loaded" /\ extractor = "detector"
    /\ user_flows' = FlowsOfGroups(df, SetToSortedSeq(GroupKeys(df)), DetectorSortColumn)
    /\ pc' = "flows_done"
    /\ UNCHANGED <<netVars, flowVars, detVars, riskVars, funVars>>

\* LiveDataFetcher.process_transfers_to_user_flows: no row is dropped, the
\* hops of a transaction are sorted by block number.
process_transfers_to_user_flows ==
    /\ pc = "raw" /\ extractor = "fetcher"
    /\ user_flows' = FlowsOfGroups(df, SetToSortedSeq(GroupKeys(df)), FetcherSortColumn)
    /\ pc' = "flows_done"
    /\ UNCHANGED <<netVars, flowVars, detVars, riskVars, funVars>>

DetIdle == suite = "none" /\ results = <<>> /\ suspicious = {}
\* A table or a dict that is None (or empty) is the empty sequence.
RiskIdle ==
    /\ classification_results = <<>> /\ top_holders = <<>> /\ holder_metrics = <<>>
    /\ risk_results = <<>> /\ token_risk_data = <<>>
FunIdle == args = <<>> /\ ret = <<>>
FlowIdle == extractor = "none" /\ df = <<>>
NetIdle ==
    /\ clock = 0 /\ request_times = <<>> /\ cache = <<>>
    /\ threads = <<>> /\ batch = <<>> /\ http = <<>> /\ call = <<>>

InitFlow ==
    /\ pc = "raw"
    /\ extractor \in {"detector", "fetcher"}
    /\ \E n \in 0..MaxHops :
         \E t \in {x \in [1..n -> TxHashes] : IF n = 0 THEN TRUE ELSE x[1] = 1},
            f \in [1..n -> Parties], g \in [1..n -> Parties],
            order \in IF n <= 1 THEN {"asc"} ELSE {"asc", "desc"} :
            df = HopTable(n, t, f, g, order)
    /\ user_flows = <<>>
    /\ DetIdle /\ RiskIdle /\ FunIdle
    /\ NetIdle

NextFlow == DetectorInit \/ extract_user_flows \/ process_transfers_to_user_flows

SpecFlow == InitFlow /\ [][NextFlow]_vars

\* C1: for every transaction group, the emitted flow's start_wallet is the
\* sender of the hop with the least log_index among the hops whose sender
\* entity type is not an intermediary, and its end_wallet is the receiver of
\* the hop with the greatest log_index among the hops whose receiver entity
\* type is not an intermediary, for both flow extractors.  (Stated for the
\* tables in which every hop carries both addresses, so that a violation is
\* one of the hop order alone.)
C1_EndpointsByLogIndex ==
    (pc = "flows_done" /\ df = dropna(df)) =>
        \A k \in DOMAIN user_flows :
            LET f == user_flows[k]
                S == {i \in DOMAIN df : /\ df[i].transaction_hash = f.transaction_hash
                                         /\ df[i].from_entity_type \notin INTERMEDIARIES}
                R == {i \in DOMAIN df : /\ df[i].transaction_hash = f.transaction_hash
                                         /\ df[i].to_entity_type \notin INTERMEDIARIES}
            IN /\ \E i \in S : /\ \A j \in S : df[i].log_index <= df[j].log_index
                                /\ f.start_wallet = df[i].from_address
               /\ \E i \in R : /\ \A j \in R : df[i].log_index >= df[j].log_index
                                /\ f.end_wallet = df[i].to_address

\* C2: every emitted UserFlow has is_self_transfer = (start_wallet =
\* end_wallet), and its start and end entity types are no intermediary types.
C2_FlowInvariant ==
    \A k \in DOMAIN user_flows :
        LET f == user_flows[k]
        IN /\ f.is_self_transfer = (f.start_wallet = f.end_wallet)
           /\ f.start_entity_type \notin INTERMEDIARIES
           /\ f.end_entity_type \notin INTERMEDIARIES

\* A self-transfer routed through the DEX pool (A -> D, D -> A) was extracted.
C2_Witness ==
    /\ pc = "flows_done"
    /\ \E k \in DOMAIN user_flows :
        /\ user_flows[k].is_self_transfer
        /\ user_flows[k].hop_count = 2
        /\ \E i \in DOMAIN df : /\ df[i].transaction_hash = user_flows[k].transaction_hash
                                 /\ df[i].from_entity_type \in INTERMEDIARIES

\* C3: a transaction hash has exactly one UserFlow if its group has a hop with
\* a non-intermediary sender and a hop with a non-intermediary receiver, and
\* none otherwise; the flow's usd_value is the sum over all hops of the group
\* and its hop_count the number of hops.
C3_OneFlowPerQualifyingGroup ==
    pc = "flows_done" =>
        \A tx \in TxHashes :
            LET G == {i \in DOMAIN df : df[i].transaction_hash = tx}
                qualifies == /\ \E i \in G : df[i].from_entity_type \notin INTERMEDIARIES
                             /\ \E i \in G : df[i].to_entity_type \notin INTERMEDIARIES
                F == {k \in DOMAIN user_flows : user_flows[k].transaction_hash = tx}
            IN /\ Cardinality(F) = IF qualifies THEN 1 ELSE 0
               /\ \A k \in F :
                    /\ user_flows[k].usd_value = SumOver(G, [i \in G |-> df[i].usd_value])
                    /\ user_flows[k].hop_count = Cardinality(G)

\* The parts of C1 and C3 that hold: under extract_user_flows (rows with a
\* null address dropped, hops sorted by log_index) both statements hold.
FlowClaimsOfDetector ==
    extractor = "detector" => C1_EndpointsByLogIndex /\ C3_OneFlowPerQualifyingGroup

(***************************************************************************)
(* PATTERN DETECTORS                                                       *)
(* Both suites read the same UserFlow table.  A findings table (a          *)
(* DataFrame) is modelled as the set of its rows; the columns that are     *)
(* means of other columns and the display strings are left out.            *)
(* Timestamps are in hours.                                                *)
(***************************************************************************)

\* The user wallets of the flow tables, in the order of their addresses
\* (Python's string order, which sorted() uses).
WalletOrder == <<"A", "B", "C">>
Wallets == Rows(WalletOrder)
Wallets2 == {"A", "B"}
WalletRank(w) == CHOOSE i \in DOMAIN WalletOrder : WalletOrder[i] = w

\* The timestamps of the tables are multiples of HoursPerTick.
HoursPerTick == 12

RECURSIVE Repeat(_, _)
Repeat(x, n) == IF n = 0 THEN <<>> ELSE <<x>> \o Repeat(x, n - 1)

RECURSIVE ExpandRuns(_, _)
\* The rows of the runs k, k+1, ...: run k is n equal flows; their USD value
\* is k, so that different runs carry different values.
ExpandRuns(runs, k) ==
    IF k > Len(runs) THEN <<>>
    ELSE Repeat([start_wallet |-> runs[k].start_wallet,
                 end_wallet |-> runs[k].end_wallet,
                 timestamp |-> runs[k].timestamp,
                 usd_value |-> k,
                 is_self_transfer |-> (runs[k].start_wallet = runs[k].end_wallet)],
                runs[k].n)
         \o ExpandRuns(runs, k + 1)

\* A UserFlow table: every row is the flow of its own transaction.
FlowTable(runs) ==
    LET flat == ExpandRuns(runs, 1)
    IN [i \in DOMAIN flat |->
          [transaction_hash |-> i,
           start_wallet |-> flat[i].start_wallet,
           end_wallet |-> flat[i].end_wallet,
           timestamp |-> flat[i].timestamp,
           usd_value |-> flat[i].usd_value,
           is_self_transfer |-> flat[i].is_self_transfer]]

\* The runs a table is drawn from: wallets W, timestamps 0..maxTick ticks,
\* run lengths N.
RunsOver(W, maxTick, N) ==
    [start_wallet : W, end_wallet : W,
     timestamp : {k * HoursPerTick : k \in 0..maxTick}, n : N]

\* tuple(sorted([row['start_wallet'], row['end_wallet']]))
wallet_pair(row) ==
    IF WalletRank(row.start_wallet) <= WalletRank(row.end_wallet)
    THEN <<row.start_wallet, row.end_wallet>>
    ELSE <<row.end_wallet, row.start_wallet>>

\* flows.groupby('wallet_pair'): its keys and the group of a key.
PairKeys(flows) == {wallet_pair(r) : r \in Rows(flows)}
PairGroup(flows, pair) == SelectSeq(flows, LAMBDA r : wallet_pair(r) = pair)

\* detect_self_transfers (both suites): one row per wallet with a flow whose
\* is_self_transfer is true.
detect_self_transfers(flows) ==
    LET self_transfers == SelectSeq(flows, LAMBDA r : r.is_self_transfer = TRUE)
    IN {[wallet |-> w,
         transfer_count |-> Len(SelectSeq(self_transfers, LAMBDA r : r.start_wallet = w)),
         total_volume_usd |->
            SumSeq([i \in DOMAIN SelectSeq(self_transfers, LAMBDA r : r.start_wallet = w) |->
                       SelectSeq(self_transfers, LAMBDA r : r.start_wallet = w)[i].usd_value])] :
        w \in {r.start_wallet : r \in Rows(self_transfers)}}

time_threshold_hours == 24

\* A window closed on the left, which would also count a simultaneous return.
matching_returns_closed(b_to_a, out_transfer, hours) ==
    SelectSeq(b_to_a, LAMBDA r : /\ r.timestamp >= out_transfer.timestamp
                                 /\ r.timestamp <= out_transfer.timestamp + hours)

\* b_to_a[(timestamp > out.timestamp) & (timestamp <= out.timestamp + window)]
matching_returns(b_to_a, out_transfer, hours) ==
    SelectSeq(b_to_a, LAMBDA r : /\ r.timestamp > out_transfer.timestamp
                                 /\ r.timestamp <= out_transfer.timestamp + hours)

RECURSIVE roundtrip_count(_, _, _)
\* The loop over a_to_b: roundtrip_count += len(matching_returns)
roundtrip_count(a_to_b, b_to_a, hours) ==
    IF a_to_b = <<>> THEN 0
    ELSE Len(matching_returns(b_to_a, Head(a_to_b), hours))
         + roundtrip_count(Tail(a_to_b), b_to_a, hours)

\* min_time_diff: the least return latency over every out-transfer's matching
\* returns, in hours (the count is >= 2 wherever this is used, so one exists).
fastest_roundtrip_hours(a_to_b, b_to_a, hours) ==
    LET D == UNION {{r.timestamp - o.timestamp :
                        r \in Rows(matching_returns(b_to_a, o, hours))} :
                    o \in Rows(a_to_b)}
    IN CHOOSE d \in D : \A x \in D : d <= x

\* The round-trip row of one pair group, or no row.
RoundtripOfPair(flows, pair, hours) ==
    LET group == PairGroup(flows, pair)
        wallet_a == pair[1]
        wallet_b == pair[2]
        a_to_b == SortValues(SelectSeq(group, LAMBDA r : r.start_wallet = wallet_a), "timestamp")
        b_to_a == SortValues(SelectSeq(group, LAMBDA r : r.start_wallet = wallet_b), "timestamp")
        count == roundtrip_count(a_to_b, b_to_a, hours)
    IN IF Len(group) < 2 THEN {}
       ELSE IF Len(a_to_b) = 0 \/ Len(b_to_a) = 0 THEN {}
       ELSE IF count >= 2
            THEN {[wallet_a |-> wallet_a, wallet_b |-> wallet_b,
                   roundtrip_count |-> count,
                   total_transactions |-> Len(group),
                   fastest_roundtrip_hours |-> fastest_roundtrip_hours(a_to_b, b_to_a, hours)]}
            ELSE {}

\* TransactionBasedWashTradingDetector.detect_rapid_roundtrips
detect_rapid_roundtrips(flows, hours) ==
    UNION {RoundtripOfPair(flows, pair, hours) : pair \in PairKeys(flows)}

\* WashTradingDetector.detect_rapid_roundtrips: the same pairs, fewer columns.
WTD_detect_rapid_roundtrips(flows, hours) ==
    {[wallet_a |-> r.wallet_a, wallet_b |-> r.wallet_b,
      roundtrip_count |-> r.roundtrip_count,
      total_transactions |-> r.total_transactions] :
        r \in detect_rapid_roundtrips(flows, hours)}

min_transactions == 10

\* TransactionBasedWashTradingDetector.detect_high_frequency_pairs: wallet_a
\* and wallet_b are the start and the end wallet of the group's first row;
\* bidirectional_ratio is min/max of the two directions' counts, kept as the
\* pair <<min, max>>.
detect_high_frequency_pairs(flows, threshold) ==
    {LET group == PairGroup(flows, pair)
         wallet_a == group[1].start_wallet
         wallet_b == group[1].end_wallet
         a_to_b == Len(SelectSeq(group, LAMBDA r : r.start_wallet = wallet_a))
         b_to_a == Len(SelectSeq(group, LAMBDA r : r.start_wallet = wallet_b))
     IN [wallet_a |-> wallet_a, wallet_b |-> wallet_b,
         transaction_count |-> Len(group),
         total_volume |-> SumSeq([i \in DOMAIN group |-> group[i].usd_value]),
         bidirectional_ratio |-> <<Min2(a_to_b, b_to_a), Max2(a_to_b, b_to_a)>>] :
        pair \in {q \in PairKeys(flows) : Len(PairGroup(flows, q)) >= threshold}}

\* WashTradingDetector.detect_high_frequency_pairs: wallet_a and wallet_b are
\* the sorted pair.
WTD_detect_high_frequency_pairs(flows, threshold) ==
    {[wallet_a |-> pair[1], wallet_b |-> pair[2],
      transaction_count |-> Len(PairGroup(flows, pair))] :
        pair \in {q \in PairKeys(flows) : Len(PairGroup(flows, q)) >= threshold}}

max_cycle_length == 4
cycle_limit == 1000

\* The directed graph of the flows: G.has_edge(s, e), G[s][e]['weight'] and
\* G[s][e]['count'].
Nodes(flows) == {r.start_wallet : r \in Rows(flows)} \cup {r.end_wallet : r \in Rows(flows)}
HasEdge(flows, s, e) == \E r \in Rows(flows) : r.start_wallet = s /\ r.end_wallet = e
EdgeRows(flows, s, e) == SelectSeq(flows, LAMBDA r : r.start_wallet = s /\ r.end_wallet = e)
EdgeWeight(flows, s, e) ==
    SumSeq([i \in DOMAIN EdgeRows(flows, s, e) |-> EdgeRows(flows, s, e)[i].usd_value])
EdgeCount(flows, s, e) == Len(EdgeRows(flows, s, e))

\* nx.simple_cycles(G): every elementary circuit once, self-loops included,
\* each written from its least wallet.
simple_cycles(flows) ==
    LET N == Nodes(flows)
    IN UNION {{c \in [1..k -> N] :
                /\ \A i, j \in 1..k : i # j => c[i] # c[j]
                /\ \A i \in 2..k : WalletRank(c[1]) < WalletRank(c[i])
                /\ \A i \in 1..k : HasEdge(flows, c[i], c[(i % k) + 1])} :
              k \in 1..Cardinality(N)}

\* The cycles the loop looks at: all of them, or cycle_limit of them when the
\* enumeration yields more.
EnumeratedCycles(flows) ==
    LET all == simple_cycles(flows)
    IN IF Cardinality(all) <= cycle_limit THEN all
       ELSE CHOOSE S \in SUBSET all : Cardinality(S) = cycle_limit

\* A filter that lets self-loops through.
CycleLengthKeptWithLoops(cycle, maxLen) == Len(cycle) <= maxLen

\* if 2 <= len(cycle) <= max_cycle_length
CycleLengthKept(cycle, maxLen) == 2 <= Len(cycle) /\ Len(cycle) <= maxLen

\* TransactionBasedWashTradingDetector.detect_circular_patterns
detect_circular_patterns(flows, maxLen) ==
    {[cycle_length |-> Len(cycle),
      wallets |-> cycle,
      total_volume_usd |->
          SumSeq([j \in DOMAIN cycle |-> EdgeWeight(flows, cycle[j], cycle[(j % Len(cycle)) + 1])]),
      total_transactions |->
          SumSeq([j \in DOMAIN cycle |-> EdgeCount(flows, cycle[j], cycle[(j % Len(cycle)) + 1])])] :
        cycle \in {c \in EnumeratedCycles(flows) : CycleLengthKept(c, maxLen)}}

\* WashTradingDetector.detect_circular_patterns
WTD_detect_circular_patterns(flows, maxLen) ==
    {[cycle_length |-> Len(cycle), wallets |-> cycle] :
        cycle \in {c \in EnumeratedCycles(flows) : CycleLengthKept(c, maxLen)}}

top_n == 20

\* The outbound volume alone.
outbound_volume_by_wallet(flows, w) ==
    SumSeq([i \in DOMAIN SelectSeq(flows, LAMBDA r : r.start_wallet = w) |->
               SelectSeq(flows, LAMBDA r : r.start_wallet = w)[i].usd_value])

\* start_volume.add(end_volume, fill_value=0): a wallet's outbound plus
\* inbound USD volume.
total_volume_by_wallet(flows, w) ==
    SumSeq([i \in DOMAIN SelectSeq(flows, LAMBDA r : r.start_wallet = w) |->
               SelectSeq(flows, LAMBDA r : r.start_wallet = w)[i].usd_value])
    + SumSeq([i \in DOMAIN SelectSeq(flows, LAMBDA r : r.end_wallet = w) |->
                 SelectSeq(flows, LAMBDA r : r.end_wallet = w)[i].usd_value])

\* The volume of every wallet of the table.
VolumeByWallet(flows) == [w \in Nodes(flows) |-> total_volume_by_wallet(flows, w)]

\* The rank of a wallet after sort_values(ascending=False): wallets of equal
\* volume stay in index (address) order.
VolumeRank(vol, w) ==
    1 + Cardinality({v \in DOMAIN vol :
            \/ vol[v] > vol[w]
            \/ vol[v] = vol[w] /\ WalletRank(v) < WalletRank(w)})

\* TransactionBasedWashTradingDetector.analyze_volume_concentration: the
\* percentages are total_volume_usd (cumulative_volume_usd) over total_volume,
\* held as the fractions [num, den]; a fraction over 0 is the NaN of the
\* code's division.
analyze_volume_concentration(flows, n) ==
    LET vol == VolumeByWallet(flows)
        rank == [w \in DOMAIN vol |-> VolumeRank(vol, w)]
        total_volume == SumOver(DOMAIN vol, vol)
        cumulative(w) == SumOver({v \in DOMAIN vol : rank[v] <= rank[w]}, vol)
    IN {[rank |-> rank[w],
         wallet |-> w,
         total_volume_usd |-> vol[w],
         cumulative_volume_usd |-> cumulative(w),
         total_volume |-> total_volume,
         volume_percentage |-> [num |-> vol[w] * 100, den |-> total_volume],
         cumulative_percentage |-> [num |-> cumulative(w) * 100, den |-> total_volume],
         transaction_count |->
             Len(SelectSeq(flows, LAMBDA r : r.start_wallet = w \/ r.end_wallet = w))] :
           w \in {v \in DOMAIN vol : rank[v] <= n}}

\* WashTradingDetector.analyze_volume_concentration
WTD_analyze_volume_concentration(flows, n) ==
    LET vol == VolumeByWallet(flows)
    IN {[wallet |-> w, total_volume_usd |-> vol[w]] :
           w \in {v \in DOMAIN vol : VolumeRank(vol, v) <= n}}

\* The 5-minute windows: a timestamp of the model is a whole number of hours,
\* so dt.floor('5min') leaves it as it is.
time_window(row) == row.timestamp

\* TransactionBasedWashTradingDetector.detect_temporal_clustering
detect_temporal_clustering(flows) ==
    {LET group == SelectSeq(flows, LAMBDA r : time_window(r) = tw)
         wallets == Nodes(group)
     IN [timestamp |-> tw,
         transaction_count |-> Len(group),
         unique_wallets |-> Cardinality(wallets),
         total_volume_usd |-> SumSeq([i \in DOMAIN group |-> group[i].usd_value]),
         sample_wallets |-> IF Cardinality(wallets) <= 5 THEN wallets
                            ELSE CHOOSE S \in SUBSET wallets : Cardinality(S) = 5] :
        tw \in {t \in {time_window(r) : r \in Rows(flows)} :
                   Len(SelectSeq(flows, LAMBDA r : time_window(r) = t)) >= 3}}

\* WashTradingDetector.detect_temporal_clustering
WTD_detect_temporal_clustering(flows) ==
    {[timestamp |-> c.timestamp, transaction_count |-> c.transaction_count] :
        c \in detect_temporal_clustering(flows)}

AnalysisNames == {"self_transfers", "rapid_roundtrips", "high_frequency_pairs",
                  "circular_patterns", "volume_concentration", "temporal_clustering"}

\* The wallets of the findings of each analysis.
SelfTransferWallets(res) == {r.wallet : r \in res["self_transfers"]}
RoundtripWallets(res) ==
    {r.wallet_a : r \in res["rapid_roundtrips"]} \cup {r.wallet_b : r \in res["rapid_roundtrips"]}
HighFrequencyWallets(res) ==
    {r.wallet_a : r \in res["high_frequency_pairs"]} \cup {r.wallet_b : r \in res["high_frequency_pairs"]}
CircularWallets(res) == UNION {Rows(r.wallets) : r \in res["circular_patterns"]}
VolumeWallets(res) == {r.wallet : r \in res["volume_concentration"]}

\* TransactionBasedWashTradingDetector._compile_suspicious_addresses
CompileWithVolume(res, old) ==
    old \cup SelfTransferWallets(res) \cup RoundtripWallets(res)
        \cup HighFrequencyWallets(res) \cup CircularWallets(res) \cup VolumeWallets(res)
_compile_suspicious_addresses(res, old) ==
    old \cup SelfTransferWallets(res) \cup RoundtripWallets(res)
        \cup HighFrequencyWallets(res) \cup CircularWallets(res)

\* The six analyses of TransactionBasedWashTradingDetector.run_all_analyses.
TB_Results(flows) ==
    [name \in AnalysisNames |->
        CASE name = "self_transfers"       -> detect_self_transfers(flows)
          [] name = "rapid_roundtrips"     -> detect_rapid_roundtrips(flows, time_threshold_hours)
          [] name = "high_frequency_pairs" -> detect_high_frequency_pairs(flows, min_transactions)
          [] name = "circular_patterns"    -> detect_circular_patterns(flows, max_cycle_length)
          [] name = "volume_concentration" -> analyze_volume_concentration(flows, top_n)
          [] name = "temporal_clustering"  -> detect_temporal_clustering(flows)]

\* The six analyses of WashTradingDetector.run_all_analyses.
WTD_Results(flows) ==
    [name \in AnalysisNames |->
        CASE name = "self_transfers"       -> detect_self_transfers(flows)
          [] name = "rapid_roundtrips"     -> WTD_detect_rapid_roundtrips(flows, time_threshold_hours)
          [] name = "high_frequency_pairs" -> WTD_detect_high_frequency_pairs(flows, min_transactions)
          [] name = "circular_patterns"    -> WTD_detect_circular_patterns(flows, max_cycle_length)
          [] name = "volume_concentration" -> WTD_analyze_volume_concentration(flows, top_n)
          [] name = "temporal_clustering"  -> WTD_detect_temporal_clustering(flows)]

\* The suspicious_wallets a WashTradingDetector has after its four detectors
\* that update the set have run, in the order of run_all_analyses.
WTD_SuspiciousAfter(flows, old) ==
    LET s1 == old \cup {r.wallet : r \in detect_self_transfers(flows)}
        rt == WTD_detect_rapid_roundtrips(flows, time_threshold_hours)
        s2 == s1 \cup {r.wallet_a : r \in rt} \cup {r.wallet_b : r \in rt}
        hf == WTD_detect_high_frequency_pairs(flows, min_transactions)
        s3 == s2 \cup {r.wallet_a : r \in hf} \cup {r.wallet_b : r \in hf}
        s4 == s3 \cup UNION {Rows(r.wallets) : r \in WTD_detect_circular_patterns(flows, max_cycle_length)}
    IN s4

\* TransactionBasedWashTradingDetector.run_all_analyses on an empty flow
\* table: no analysis runs, the result is {}.
TB_run_all_analyses_empty ==
    /\ pc = "flows_ready" /\ suite = "TB"
    /\ Len(user_flows) = 0
    /\ pc' = "no_data"
    /\ UNCHANGED <<netVars, user_flows, flowVars, detVars, riskVars, funVars>>

\* TransactionBasedWashTradingDetector.run_all_analyses
TB_run_all_analyses ==
    /\ pc = "flows_ready" /\ suite = "TB"
    /\ Len(user_flows) > 0
    /\ LET res == TB_Results(user_flows)
       IN /\ results' = res
          /\ suspicious' = _compile_suspicious_addresses(res, suspicious)
    /\ pc' = "analysed"
    /\ UNCHANGED <<netVars, user_flows, suite, flowVars, riskVars, funVars>>

\* WashTradingDetector.run_all_analyses; its callers hand it a table that is
\* not empty.
WTD_run_all_analyses ==
    /\ pc = "flows_ready" /\ suite = "WTD"
    /\ results' = WTD_Results(user_flows)
    /\ suspicious' = WTD_SuspiciousAfter(user_flows, suspicious)
    /\ pc' = "analysed"
    /\ UNCHANGED <<netVars, user_flows, suite, flowVars, riskVars, funVars>>

\* Bounds of the flow tables of SpecDetect: the number of runs of equal flows
\* and the last timestamp tick.
MaxRuns == 2
MaxDetectTick == 1

\* A run is one flow or as many flows as make a high-frequency pair.
RunLengths == {1, min_transactions}

InitDetect ==
    /\ pc = "flows_ready"
    /\ suite \in {"TB", "WTD"}
    /\ \E k \in 0..MaxRuns :
         \E runs \in [1..k -> RunsOver(Wallets2, MaxDetectTick, RunLengths)] :
            user_flows = FlowTable(runs)
    /\ suite = "WTD" => Len(user_flows) > 0
    /\ results = <<>> /\ suspicious = {}
    /\ FlowIdle /\ RiskIdle /\ FunIdle
    /\ NetIdle

NextDetect == TB_run_all_analyses_empty \/ TB_run_all_analyses \/ WTD_run_all_analyses

SpecDetect == InitDetect /\ [][NextDetect]_vars

\* C5: after run_all_analyses the suspicious-wallet set is exactly the set of
\* the wallets named by the self-transfer, round-trip, high-frequency-pair
\* and circular-pattern findings, for both suites; a wallet that only the
\* volume-concentration or temporal-clustering findings name is not in it.
C5_SuspiciousIsUnionOfFour ==
    /\ pc = "no_data" => suspicious = {}
    /\ pc = "analysed" =>
        \A w \in Wallets :
            w \in suspicious <=>
                \/ \E r \in results["self_transfers"] : r.wallet = w
                \/ \E r \in results["rapid_roundtrips"] : r.wallet_a = w \/ r.wallet_b = w
                \/ \E r \in results["high_frequency_pairs"] : r.wallet_a = w \/ r.wallet_b = w
                \/ \E r \in results["circular_patterns"] :
                      \E i \in DOMAIN r.wallets : r.wallets[i] = w

\* A WashTradingDetector run that found a suspicious wallet and left out a
\* wallet that only the volume concentration names.
C5_Witness ==
    /\ pc = "analysed" /\ suite = "WTD"
    /\ suspicious # {}
    /\ \E r \in results["volume_concentration"] : r.wallet \notin suspicious

(***************************************************************************)
(* Rapid round-trips alone, on two wallets and single flows.               *)
(***************************************************************************)

\* TransactionBasedWashTradingDetector.detect_rapid_roundtrips, called with
\* its default window.
TB_detect_rapid_roundtrips ==
    /\ pc = "flows_ready" /\ suite = "TB"
    /\ results' = [name \in {"rapid_roundtrips"} |->
                      detect_rapid_roundtrips(user_flows, time_threshold_hours)]
    /\ pc' = "roundtrips_done"
    /\ UNCHANGED <<netVars, user_flows, suite, suspicious, flowVars, riskVars, funVars>>

\* Bounds of the flow tables of SpecRoundtrip: the number of flows and the
\* last timestamp tick.
MaxFlows == 3
MaxTick == 3

InitRoundtrip ==
    /\ pc = "flows_ready"
    /\ suite = "TB"
    /\ \E k \in 1..MaxFlows :
         \E runs \in [1..k -> RunsOver(Wallets2, MaxTick, {1})] :
            user_flows = FlowTable(runs)
    /\ results = <<>> /\ suspicious = {}
    /\ FlowIdle /\ RiskIdle /\ FunIdle
    /\ NetIdle

NextRoundtrip == TB_detect_rapid_roundtrips

SpecRoundtrip == InitRoundtrip /\ [][NextRoundtrip]_vars

\* The matched count of the canonical pair (a, b): the number of pairs of an
\* a -> b flow at t and a b -> a flow in (t, t + window].
MatchedCount(a, b) ==
    Cardinality({ij \in (DOMAIN user_flows) \X (DOMAIN user_flows) :
        /\ user_flows[ij[1]].start_wallet = a /\ user_flows[ij[1]].end_wallet = b
        /\ user_flows[ij[2]].start_wallet = b /\ user_flows[ij[2]].end_wallet = a
        /\ user_flows[ij[2]].timestamp > user_flows[ij[1]].timestamp
        /\ user_flows[ij[2]].timestamp <= user_flows[ij[1]].timestamp + time_threshold_hours})

\* C4: for each wallet pair in canonical order (a, b), the pair is reported
\* if and only if its matched count is at least 2, and the reported count is
\* the matched count (a b -> a flow counts once for every a -> b flow it
\* follows within the window).
C4_RoundtripCount ==
    pc = "roundtrips_done" =>
        \A a, b \in Wallets2 :
            WalletRank(a) <= WalletRank(b) =>
                LET found == {r \in results["rapid_roundtrips"] : r.wallet_a = a /\ r.wallet_b = b}
                IN /\ Cardinality(found) = IF MatchedCount(a, b) >= 2 THEN 1 ELSE 0
                   /\ \A r \in found : r.roundtrip_count = MatchedCount(a, b)

\* One A -> B flow followed by two B -> A flows inside the window: flagged
\* with count 2.
C4_Witness ==
    /\ pc = "roundtrips_done"
    /\ Len(user_flows) = 3
    /\ Cardinality({i \in DOMAIN user_flows : user_flows[i].start_wallet = "A"}) = 1
    /\ \E r \in results["rapid_roundtrips"] :
          r.wallet_a = "A" /\ r.wallet_b = "B" /\ r.roundtrip_count = 2

\* One A -> B flow followed by exactly one B -> A flow inside the window is
\* not flagged.
C4_SingleReturnNotFlagged ==
    (/\ pc = "roundtrips_done"
     /\ Len(user_flows) = 2
     /\ user_flows[1].start_wallet = "A" /\ user_flows[1].end_wallet = "B"
     /\ user_flows[2].start_wallet = "B" /\ user_flows[2].end_wallet = "A")
    => results["rapid_roundtrips"] = {}


(***************************************************************************)
(* The bot scorer: BotDetector.calculate_bot_score and the classification  *)
(* rule of classify_wallets.                                               *)
(*                                                                         *)
(* Numbers: a ratio feature is held in hundredths (0.4 is 40), rule points *)
(* in halves (1.5 is 3), a category sub-score in units of 1/PointsDen and  *)
(* a bot score in units of 1/ScoreDen.  All of them are exact.             *)
(***************************************************************************)

THRESHOLDS ==
    [high_frequency_txs_per_hour |-> 10,
     precision_decimals          |-> 4,
     counterparty_diversity      |-> 5,
     off_hours_ratio             |-> 40,
     concentration_threshold     |-> 70]

\* The weights of the six categories, in percent.
weights ==
    [timing |-> 20, patterns |-> 20, counterparty |-> 20,
     intelligence |-> 25, portfolio |-> 10, flow |-> 5]

Categories == <<"timing", "patterns", "counterparty", "intelligence", "portfolio", "flow">>

timing_max == 5
pattern_max == 3
cp_max == 4
intel_max == 3
port_max == 2
flow_max == 1

\* A common denominator of the sub-scores: every doubled category maximum
\* (10, 6, 8, 6, 4, 2) divides it.
PointsDen == 2 * 3 * 4 * 5
\* The unit of a bot score: ScoreDen is the score 1.0.
ScoreDen == PointsDen * 100

\* features.get(name, default)
Get(features, name, default) ==
    IF name \in DOMAIN features THEN features[name] ELSE default

Abs(x) == IF x < 0 THEN 0 - x ELSE x

\* TIMING with the off-hours rule worth 3 points instead of 2.
timing_score_overweight(features) ==
    (IF Get(features, "api_txs_per_hour", 0) > THRESHOLDS.high_frequency_txs_per_hour
     THEN 3 ELSE 0)
    + (IF Get(features, "api_time_regularity_cv", 100) < 50 THEN 3 ELSE 0)
    + (IF Get(features, "api_off_hours_ratio", 0) > THRESHOLDS.off_hours_ratio
       THEN 6 ELSE 0)

\* TIMING: 1.5 + 1.5 + 2 points, in halves.
timing_score(features) ==
    (IF Get(features, "api_txs_per_hour", 0) > THRESHOLDS.high_frequency_txs_per_hour
     THEN 3 ELSE 0)
    + (IF Get(features, "api_time_regularity_cv", 100) < 50 THEN 3 ELSE 0)
    + (IF Get(features, "api_off_hours_ratio", 0) > THRESHOLDS.off_hours_ratio
       THEN 4 ELSE 0)

\* PATTERNS: 1.5 + 1.5 points, in halves.
pattern_score(features) ==
    (IF Get(features, "api_avg_decimal_places", 0) >= THRESHOLDS.precision_decimals
     THEN 3 ELSE 0)
    + (IF Get(features, "api_value_cv", 100) < 30 THEN 3 ELSE 0)

\* COUNTERPARTY: 2 + 2 points, in halves.
cp_score(features) ==
    (IF Get(features, "cp_unique_counterparties", 100) < THRESHOLDS.counterparty_diversity
     THEN 4 ELSE 0)
    + (IF Get(features, "cp_top_counterparty_ratio", 0) > 60 THEN 4 ELSE 0)

\* INTELLIGENCE: 3 points for a bot tag, else 1 for an entity prediction.
intel_score(features) ==
    IF Get(features, "intel_has_bot_tag", FALSE) THEN 6
    ELSE IF Get(features, "intel_has_entity_prediction", FALSE) THEN 2
    ELSE 0

\* PORTFOLIO: 1 + 1 points, in halves.
port_score(features) ==
    (IF Get(features, "bal_portfolio_concentration", 0) > 90 THEN 2 ELSE 0)
    + (IF Get(features, "bal_token_diversity", 100) < 3 THEN 2 ELSE 0)

\* FLOW: 1 point, in halves.
flow_score(features) ==
    IF Abs(Get(features, "flow_balance_ratio", 0)) < 10 THEN 2 ELSE 0

\* The reasoning dict: the names of the rules that fired.
reasoning(features) ==
    {rule \in {"high_frequency", "regular_timing", "off_hours_active", "precise_values",
               "consistent_values", "limited_counterparties", "concentrated_trading",
               "bot_tag_detected", "known_entity", "concentrated_portfolio",
               "low_diversity", "balanced_flow"} :
        CASE rule = "high_frequency" ->
                Get(features, "api_txs_per_hour", 0) > THRESHOLDS.high_frequency_txs_per_hour
          [] rule = "regular_timing" -> Get(features, "api_time_regularity_cv", 100) < 50
          [] rule = "off_hours_active" ->
                Get(features, "api_off_hours_ratio", 0) > THRESHOLDS.off_hours_ratio
          [] rule = "precise_values" ->
                Get(features, "api_avg_decimal_places", 0) >= THRESHOLDS.precision_decimals
          [] rule = "consistent_values" -> Get(features, "api_value_cv", 100) < 30
          [] rule = "limited_counterparties" ->
                Get(features, "cp_unique_counterparties", 100) < THRESHOLDS.counterparty_diversity
          [] rule = "concentrated_trading" -> Get(features, "cp_top_counterparty_ratio", 0) > 60
          [] rule = "bot_tag_detected" -> Get(features, "intel_has_bot_tag", FALSE)
          [] rule = "known_entity" ->
                /\ ~Get(features, "intel_has_bot_tag", FALSE)
                /\ Get(features, "intel_has_entity_prediction", FALSE)
          [] rule = "concentrated_portfolio" -> Get(features, "bal_portfolio_concentration", 0) > 90
          [] rule = "low_diversity" -> Get(features, "bal_token_diversity", 100) < 3
          [] rule = "balanced_flow" -> Abs(Get(features, "flow_balance_ratio", 0)) < 10}

\* (category_score / category_max), in units of 1/PointsDen.
SubScore(points, max) == (points * PointsDen) \div (2 * max)

\* The six quotients that calculate_bot_score adds up.
sub_scores(features) ==
    [timing       |-> SubScore(timing_score(features), timing_max),
     patterns     |-> SubScore(pattern_score(features), pattern_max),
     counterparty |-> SubScore(cp_score(features), cp_max),
     intelligence |-> SubScore(intel_score(features), intel_max),
     portfolio    |-> SubScore(port_score(features), port_max),
     flow         |-> SubScore(flow_score(features), flow_max)]

\* BotDetector.calculate_bot_score: score and max_score grow category by
\* category; the result is score / max_score.
calculate_bot_score(features) ==
    LET sub       == sub_scores(features)
        score     == SumSeq([i \in DOMAIN Categories |-> sub[Categories[i]] * weights[Categories[i]]])
        max_score == SumSeq([i \in DOMAIN Categories |-> weights[Categories[i]]])
    IN [normalized_score |-> IF max_score > 0 THEN (score * 100) \div max_score ELSE 0,
        reasoning        |-> reasoning(features),
        sub_scores       |-> sub]

\* The classification with BOT starting where HIGH confidence starts.
classification_above_high(bot_score) ==
    IF bot_score * 10 > 7 * ScoreDen THEN "BOT"
    ELSE IF bot_score * 10 > 4 * ScoreDen THEN "UNCERTAIN"
    ELSE "HUMAN"

\* 'BOT' if bot_score > 0.6 else 'UNCERTAIN' if bot_score > 0.4 else 'HUMAN'
classification(bot_score) ==
    IF bot_score * 10 > 6 * ScoreDen THEN "BOT"
    ELSE IF bot_score * 10 > 4 * ScoreDen THEN "UNCERTAIN"
    ELSE "HUMAN"

\* 'HIGH' if bot_score > 0.7 else 'MEDIUM' if bot_score > 0.4 else 'LOW'
bot_confidence(bot_score) ==
    IF bot_score * 10 > 7 * ScoreDen THEN "HIGH"
    ELSE IF bot_score * 10 > 4 * ScoreDen THEN "MEDIUM"
    ELSE "LOW"

\* The features the scorer reads, each with values on both sides of its rule.
FeatureGrid ==
    [api_txs_per_hour            |-> <<10, 11>>,
     api_time_regularity_cv      |-> <<49, 50>>,
     api_off_hours_ratio         |-> <<40, 41>>,
     api_avg_decimal_places      |-> <<3, 4>>,
     api_value_cv                |-> <<29, 30>>,
     cp_unique_counterparties    |-> <<4, 5>>,
     cp_top_counterparty_ratio   |-> <<60, 61>>,
     intel_has_bot_tag           |-> <<FALSE, TRUE>>,
     intel_has_entity_prediction |-> <<FALSE, TRUE>>,
     bal_portfolio_concentration |-> <<90, 91>>,
     bal_token_diversity         |-> <<2, 3>>,
     flow_balance_ratio          |-> <<0 - 50, 0, 10>>]

FeatureNames == DOMAIN FeatureGrid

\* The feature dict of a choice: choice 0 leaves the feature out, choice k
\* gives it the k-th value of its grid.
Features(choice) ==
    [n \in {m \in FeatureNames : choice[m] > 0} |-> FeatureGrid[n][choice[n]]]

\* calculate_bot_score(features)
BotScoreCall ==
    /\ pc = "score_call"
    /\ ret' = calculate_bot_score(args)
    /\ pc' = "score_done"
    /\ UNCHANGED <<netVars, user_flows, args, flowVars, detVars, riskVars>>

InitBot ==
    /\ pc = "score_call"
    /\ \E c \in [FeatureNames \ {"flow_balance_ratio"} -> 0..2],
          fl \in 0..Len(FeatureGrid["flow_balance_ratio"]) :
          args = Features([n \in FeatureNames |->
                              IF n = "flow_balance_ratio" THEN fl ELSE c[n]])
    /\ ret = <<>>
    /\ user_flows = <<>>
    /\ FlowIdle /\ DetIdle /\ RiskIdle
    /\ NetIdle

\* classify_wallets, after the score of a wallet: the score, the confidence
\* and the classification are stored with the features.
ClassifyScored ==
    /\ pc = "score_done"
    /\ ret' = [normalized_score |-> ret.normalized_score,
               reasoning        |-> ret.reasoning,
               sub_scores       |-> ret.sub_scores,
               bot_score        |-> ret.normalized_score,
               bot_confidence   |-> bot_confidence(ret.normalized_score),
               classification   |-> classification(ret.normalized_score)]
    /\ pc' = "wallet_classified"
    /\ UNCHANGED <<netVars, user_flows, args, flowVars, detVars, riskVars>>

NextBot == BotScoreCall \/ ClassifyScored

SpecBot == InitBot /\ [][NextBot]_vars

\* The scoring rules as the specification lists them: category and points
\* (in halves) of each rule, and the points a category can give at most.
RulePoints ==
    [high_frequency         |-> <<"timing", 3>>,
     regular_timing         |-> <<"timing", 3>>,
     off_hours_active       |-> <<"timing", 4>>,
     precise_values         |-> <<"patterns", 3>>,
     consistent_values      |-> <<"patterns", 3>>,
     limited_counterparties |-> <<"counterparty", 4>>,
     concentrated_trading   |-> <<"counterparty", 4>>,
     bot_tag_detected       |-> <<"intelligence", 6>>,
     known_entity           |-> <<"intelligence", 2>>,
     concentrated_portfolio |-> <<"portfolio", 2>>,
     low_diversity          |-> <<"portfolio", 2>>,
     balanced_flow          |-> <<"flow", 2>>]

MaxPoints ==
    [timing |-> 10, patterns |-> 6, counterparty |-> 8,
     intelligence |-> 6, portfolio |-> 4, flow |-> 2]

ClaimedWeights ==
    [timing |-> 20, patterns |-> 20, counterparty |-> 20,
     intelligence |-> 25, portfolio |-> 10, flow |-> 5]

\* The points the fired rules of a category are worth.
PointsEarned(fired, cat) ==
    SumOver({r \in fired : RulePoints[r][1] = cat}, [r \in DOMAIN RulePoints |-> RulePoints[r][2]])

CategorySet == {Categories[i] : i \in DOMAIN Categories}

\* C10: for every feature vector each of the six sub-scores is the points of
\* the fired rules of its category divided by the category's maximum and
\* lies in [0,1]; the weights are 0.20, 0.20, 0.20, 0.25, 0.10, 0.05 and sum
\* to 1; the bot score is the weighted sum of the sub-scores and lies in
\* [0,1].
C10_BotScoreWeightedSum ==
    pc = "score_done" =>
        /\ \A cat \in CategorySet :
              /\ ret.sub_scores[cat] * MaxPoints[cat]
                    = PointsEarned(ret.reasoning, cat) * PointsDen
              /\ ret.sub_scores[cat] >= 0
              /\ ret.sub_scores[cat] <= PointsDen
        /\ weights = ClaimedWeights
        /\ SumOver(CategorySet, weights) = 100
        /\ ret.normalized_score = SumOver(CategorySet, [cat \in CategorySet |->
                                      ret.sub_scores[cat] * ClaimedWeights[cat]])
        /\ ret.normalized_score >= 0
        /\ ret.normalized_score <= ScoreDen

\* A vector on which every rule but known_entity fires: all six sub-scores
\* and the bot score are 1.
C10_Witness ==
    /\ pc = "score_done"
    /\ \A cat \in CategorySet : ret.sub_scores[cat] = PointsDen
    /\ ret.normalized_score = ScoreDen
    /\ DOMAIN args = FeatureNames


(***************************************************************************)
(* Risk fusion: _calculate_risk_level of RiskScoreAnalyzer and of          *)
(* CombinedAnalyzer.  A bot score is in units of 1/ScoreDen, and so is a   *)
(* risk score: Points(x) is the risk score x.                              *)
(***************************************************************************)

Points(x) == x * ScoreDen

\* The level rule with strict thresholds.
risk_level_strict(risk_score) ==
    IF risk_score > Points(75) THEN "CRITICAL"
    ELSE IF risk_score > Points(50) THEN "HIGH"
    ELSE IF risk_score > Points(25) THEN "MEDIUM"
    ELSE "LOW"

\* RiskScoreAnalyzer._calculate_risk_level: the level of a score.
risk_level(risk_score) ==
    IF risk_score >= Points(75) THEN "CRITICAL"
    ELSE IF risk_score >= Points(50) THEN "HIGH"
    ELSE IF risk_score >= Points(25) THEN "MEDIUM"
    ELSE "LOW"

\* _calculate_risk_level with the premium for every whale and no forced 100.
RiskScoreOfPremiumOnly(bot_score, bot_classification, is_wash_trading, wash_flag_count, is_top_holder) ==
    LET bot   == bot_score * 50
        wash  == IF is_wash_trading
                 THEN bot + Points(Min2(wash_flag_count * 15, 50))
                 ELSE bot
        whale == IF is_top_holder THEN wash + Points(20) ELSE wash
    IN Min2(whale, Points(100))

\* RiskScoreAnalyzer._calculate_risk_level: the score.
RiskScoreOf(bot_score, bot_classification, is_wash_trading, wash_flag_count, is_top_holder) ==
    LET bot   == bot_score * 50
        wash  == IF is_wash_trading
                 THEN bot + Points(Min2(wash_flag_count * 15, 50))
                 ELSE bot
        whale == IF is_top_holder
                 THEN IF is_wash_trading \/ bot_classification = "BOT"
                      THEN Points(100)
                      ELSE wash + Points(20)
                 ELSE wash
    IN Min2(whale, Points(100))

\* RiskScoreAnalyzer._calculate_risk_level
_calculate_risk_level(bot_score, bot_classification, is_wash_trading, wash_flag_count, is_top_holder) ==
    LET risk_score == RiskScoreOf(bot_score, bot_classification, is_wash_trading,
                                  wash_flag_count, is_top_holder)
    IN [risk_level |-> risk_level(risk_score), risk_score |-> risk_score]

\* CombinedAnalyzer._calculate_risk_level: no whale rule.
Combined_calculate_risk_level(bot_score, bot_classification, is_wash_trading, wash_flag_count) ==
    LET bot        == bot_score * 50
        wash       == IF is_wash_trading
                      THEN bot + Points(Min2(wash_flag_count * 15, 50))
                      ELSE bot
        risk_score == Min2(wash, Points(100))
    IN [risk_level |-> IF risk_score >= Points(75) THEN "CRITICAL"
                       ELSE IF risk_score >= Points(50) THEN "HIGH"
                       ELSE IF risk_score >= Points(25) THEN "MEDIUM"
                       ELSE "LOW",
        risk_score |-> risk_score]

\* Bounds of SpecRiskLevel: the bot scores are the BotSteps + 1 grid points
\* of [0,1], the flag counts are 0..MaxFlagCount.
BotSteps == 20
MaxFlagCount == 5

BotClassifications == {"BOT", "UNCERTAIN", "HUMAN", "UNKNOWN"}

\* RiskScoreAnalyzer._calculate_risk_level(...)
RiskLevelCall ==
    /\ pc = "level_call" /\ args.analyzer = "risk"
    /\ ret' = _calculate_risk_level(args.bot_score, args.bot_classification,
                                    args.is_wash_trading, args.wash_flag_count,
                                    args.is_top_holder)
    /\ pc' = "level_done"
    /\ UNCHANGED <<netVars, user_flows, args, flowVars, detVars, riskVars>>

\* CombinedAnalyzer._calculate_risk_level(...)
CombinedLevelCall ==
    /\ pc = "level_call" /\ args.analyzer = "combined"
    /\ ret' = Combined_calculate_risk_level(args.bot_score, args.bot_classification,
                                            args.is_wash_trading, args.wash_flag_count)
    /\ pc' = "level_done"
    /\ UNCHANGED <<netVars, user_flows, args, flowVars, detVars, riskVars>>

InitRiskLevel ==
    /\ pc = "level_call"
    /\ \E analyzer \in {"risk", "combined"}, k \in 0..BotSteps,
          c \in BotClassifications, w \in BOOLEAN, n \in 0..MaxFlagCount :
          \E t \in IF analyzer = "risk" THEN BOOLEAN ELSE {FALSE} :
             args = [analyzer |-> analyzer,
                     bot_score |-> (k * ScoreDen) \div BotSteps,
                     bot_classification |-> c,
                     is_wash_trading |-> w,
                     wash_flag_count |-> n,
                     is_top_holder |-> t]
    /\ ret = <<>>
    /\ user_flows = <<>>
    /\ FlowIdle /\ DetIdle /\ RiskIdle
    /\ NetIdle

NextRiskLevel == RiskLevelCall \/ CombinedLevelCall

SpecRiskLevel == InitRiskLevel /\ [][NextRiskLevel]_vars

\* The additive score of the arguments: the bot contribution plus, for a
\* wash-flagged wallet, the flag contribution.
AdditiveScore ==
    args.bot_score * 50
    + (IF args.is_wash_trading THEN Points(Min2(args.wash_flag_count * 15, 50)) ELSE 0)

C8_ScoreRangeAndLevel ==
    pc = "level_done" =>
        /\ ret.risk_score >= 0
        /\ ret.risk_score <= Points(100)
        /\ ret.risk_level = "CRITICAL" <=> ret.risk_score >= Points(75)
        /\ ret.risk_level = "HIGH" <=>
              (ret.risk_score >= Points(50) /\ ret.risk_score < Points(75))
        /\ ret.risk_level = "MEDIUM" <=>
              (ret.risk_score >= Points(25) /\ ret.risk_score < Points(50))
        /\ ret.risk_level = "LOW" <=> ret.risk_score < Points(25)

\* Bot score 1.0 and no flag, not a whale: exactly 50, HIGH, in
\* RiskScoreAnalyzer.
C8_Witness ==
    /\ pc = "level_done" /\ args.analyzer = "risk"
    /\ args.bot_score = ScoreDen
    /\ ~args.is_wash_trading /\ args.wash_flag_count = 0 /\ ~args.is_top_holder
    /\ ret.risk_score = Points(50) /\ ret.risk_level = "HIGH"


(***************************************************************************)
(* The risk table: BotDetector.classify_wallets, then                      *)
(* RiskScoreAnalyzer.create_risk_analysis over the results of a            *)
(* WashTradingDetector, and the token risk summary.                        *)
(***************************************************************************)

\* The orders in which a finite set can be listed.
Orders(S) ==
    {s \in [1..Cardinality(S) -> S] : \A i, j \in DOMAIN s : i # j => s[i] # s[j]}

\* DataFrame.sort_values(by, ascending=False): the rows are reversed, sorted
\* ascending and reversed again, so rows with equal keys keep their order.
SortValuesDescending(rows, by) == Reverse(SortValues(Reverse(rows), by))

classify_min_transactions == 5

\* value_counts() of the two wallet columns.
start_wallets(flows, w) == Len(SelectSeq(flows, LAMBDA r : r.start_wallet = w))
end_wallets(flows, w) == Len(SelectSeq(flows, LAMBDA r : r.end_wallet = w))

\* eligible_wallets: the wallets of the start_wallet column whose flows, as
\* start and as end, number at least min_tx.
eligible_wallets(flows, min_tx) ==
    {w \in {r.start_wallet : r \in Rows(flows)} :
        start_wallets(flows, w) + end_wallets(flows, w) >= min_tx}

\* The feature dicts extract_features gives in SpecRisk: of a wallet without
\* any payload, of a wallet whose timing and value rules fire, and of a
\* wallet on which every rule fires.
BotProfiles ==
    [none      |-> <<>>,
     uncertain |-> [api_txs_per_hour |-> 11, api_time_regularity_cv |-> 49,
                    api_off_hours_ratio |-> 41, api_avg_decimal_places |-> 4,
                    api_value_cv |-> 29, flow_balance_ratio |-> 0],
     bot       |-> [api_txs_per_hour |-> 11, api_time_regularity_cv |-> 49,
                    api_off_hours_ratio |-> 41, api_avg_decimal_places |-> 4,
                    api_value_cv |-> 29, cp_unique_counterparties |-> 4,
                    cp_top_counterparty_ratio |-> 61, intel_has_bot_tag |-> TRUE,
                    intel_has_entity_prediction |-> TRUE,
                    bal_portfolio_concentration |-> 91, bal_token_diversity |-> 2,
                    flow_balance_ratio |-> 0]]

\* The row classify_wallets appends for one wallet.
ClassificationRow(flows, wallet, features) ==
    LET scored == calculate_bot_score(features)
    IN [wallet         |-> wallet,
        local_tx_count |-> Len(SelectSeq(flows, LAMBDA r : r.start_wallet = wallet
                                                           \/ r.end_wallet = wallet)),
        bot_score      |-> scored.normalized_score,
        bot_confidence |-> bot_confidence(scored.normalized_score),
        classification |-> classification(scored.normalized_score),
        reasoning      |-> scored.reasoning]

\* BotDetector.classify_wallets: the eligible wallets by falling count (equal
\* counts in any order), each scored on its features, the table sorted by
\* falling bot score.
classify_wallets ==
    /\ pc = "analysed" /\ suite = "WTD"
    /\ LET eligible == eligible_wallets(user_flows, classify_min_transactions)
           count(w) == start_wallets(user_flows, w) + end_wallets(user_flows, w)
       IN /\ eligible # {}
          /\ \E order \in {o \in Orders(eligible) :
                              \A i, j \in DOMAIN o : i < j => count(o[i]) >= count(o[j])},
                profile \in [eligible -> DOMAIN BotProfiles] :
                classification_results' =
                    SortValuesDescending(
                        [i \in DOMAIN order |->
                            ClassificationRow(user_flows, order[i], BotProfiles[profile[order[i]]])],
                        "bot_score")
    /\ pc' = "classified"
    /\ UNCHANGED <<netVars, user_flows, flowVars, detVars, top_holders, holder_metrics,
                   risk_results, token_risk_data, funVars>>

\* BotDetector.classify_wallets without an eligible wallet:
\* batch_fetch_wallet_data divides by total_expected = 0 and raises (and the
\* sort of the empty table by 'bot_score' would); classification_results
\* stays None.
classify_wallets_raises ==
    /\ pc = "analysed" /\ suite = "WTD"
    /\ eligible_wallets(user_flows, classify_min_transactions) = {}
    /\ pc' = "classify_raised"
    /\ UNCHANGED <<netVars, user_flows, flowVars, detVars, riskVars, funVars>>

\* The analyses in the order of the results dict.
AnalysisOrder ==
    <<"self_transfers", "rapid_roundtrips", "high_frequency_pairs",
      "circular_patterns", "volume_concentration", "temporal_clustering">>

\* wash_flags of a wallet: the analyses whose table names it, by the column
\* each analysis is looked up in.
wash_flags(res, wallet) ==
    SelectSeq(AnalysisOrder, LAMBDA name :
        /\ res[name] # {}
        /\ CASE name \in {"self_transfers", "volume_concentration"} ->
                    \E r \in res[name] : r.wallet = wallet
             [] name \in {"rapid_roundtrips", "high_frequency_pairs"} ->
                    \E r \in res[name] : r.wallet_a = wallet \/ r.wallet_b = wallet
             [] name = "circular_patterns" ->
                    \E r \in res[name] : wallet \in Rows(r.wallets)
             [] OTHER -> FALSE)

\* The row create_risk_analysis appends for one wallet.
RiskRow(wallet, bot_results, wash_wallets, res, top_holders_set) ==
    LET bot_row  == SelectSeq(bot_results, LAMBDA r : r.wallet = wallet)
        known    == Len(bot_row) > 0
        bot_score          == IF known THEN bot_row[1].bot_score ELSE 0
        bot_classification == IF known THEN bot_row[1].classification ELSE "UNKNOWN"
        is_wash_trading    == wallet \in wash_wallets
        flags              == wash_flags(res, wallet)
        is_top_holder      == wallet \in top_holders_set
        level == _calculate_risk_level(bot_score, bot_classification, is_wash_trading,
                                       Len(flags), is_top_holder)
    IN [wallet             |-> wallet,
        risk_level         |-> level.risk_level,
        risk_score         |-> level.risk_score,
        bot_score          |-> bot_score,
        bot_classification |-> bot_classification,
        bot_confidence     |-> IF known THEN bot_row[1].bot_confidence ELSE "N/A",
        is_wash_trading    |-> is_wash_trading,
        wash_trading_flags |-> flags,
        wash_flag_count    |-> Len(flags),
        is_top_holder      |-> is_top_holder,
        risk_threat        |->
            IF bot_classification = "BOT" /\ is_wash_trading THEN "CRITICAL"
            ELSE IF bot_classification = "BOT" \/ is_wash_trading THEN "HIGH"
            ELSE IF bot_classification = "UNCERTAIN" THEN "MEDIUM"
            ELSE "LOW"]

\* A number num / den.
Rat(num, den) == [num |-> num, den |-> den]

\* calculate_token_risk_score without the cap of the concentration score.
calculate_token_risk_score_uncapped(metrics, table) ==
    LET conc0 == Get(metrics, "top_10_ratio", 0) * 5
        conc4 == IF Get(metrics, "gini_coefficient", 0) > 900 THEN Max2(conc0, 4 * 90) ELSE conc0
        total_wallets == Len(table)
        den        == IF total_wallets > 0 THEN total_wallets ELSE 1
        bot_count  == Cardinality({i \in DOMAIN table : table[i].bot_classification = "BOT"})
        wash_count == Cardinality({i \in DOMAIN table : table[i].is_wash_trading})
        bot_score  == Min2(bot_count * 333, 100 * den)
        wash_score == Min2(wash_count * 500, 100 * den)
    IN IF DOMAIN metrics = {}
       THEN [token_risk_score |-> Rat(0, 1), risk_components |-> <<>>]
       ELSE [token_risk_score |-> Rat(4 * conc4 * den + 12 * bot_score + 12 * wash_score, 40 * den),
             risk_components |->
                [concentration_risk |-> Rat(conc4, 4),
                 bot_activity_risk  |-> Rat(bot_score, den),
                 wash_trading_risk  |-> Rat(wash_score, den),
                 bot_ratio          |-> Rat(bot_count, den),
                 wash_ratio         |-> Rat(wash_count, den)]]

\* RiskScoreAnalyzer.calculate_token_risk_score, reading the risk table
\* `table` (self.risk_results; <<>> when None).  top_10_ratio is in percent,
\* gini_coefficient in thousandths; the concentration score is kept in
\* quarters (top_10_ratio * 1.25 = top_10_ratio * 5 / 4), the bot and wash
\* scores over the number of wallets, the final score over 40 times it.
calculate_token_risk_score(metrics, table) ==
    LET conc0 == Min2(Get(metrics, "top_10_ratio", 0) * 5, 4 * 100)
        conc4 == IF Get(metrics, "gini_coefficient", 0) > 900 THEN Max2(conc0, 4 * 90) ELSE conc0
        total_wallets == Len(table)
        den        == IF total_wallets > 0 THEN total_wallets ELSE 1
        bot_count  == Cardinality({i \in DOMAIN table : table[i].bot_classification = "BOT"})
        wash_count == Cardinality({i \in DOMAIN table : table[i].is_wash_trading})
        bot_score  == Min2(bot_count * 333, 100 * den)
        wash_score == Min2(wash_count * 500, 100 * den)
    IN IF DOMAIN metrics = {}
       THEN [token_risk_score |-> Rat(0, 1), risk_components |-> <<>>]
       ELSE [token_risk_score |-> Rat(4 * conc4 * den + 12 * bot_score + 12 * wash_score, 40 * den),
             risk_components |->
                [concentration_risk |-> Rat(conc4, 4),
                 bot_activity_risk  |-> Rat(bot_score, den),
                 wash_trading_risk  |-> Rat(wash_score, den),
                 bot_ratio          |-> Rat(bot_count, den),
                 wash_ratio         |-> Rat(wash_count, den)]]

\* The holder metrics handed to create_risk_analysis: none, or a top-10
\* ratio (percent) and a Gini coefficient (thousandths).
HolderMetricsInputs ==
    {<<>>,
     [top_10_ratio |-> 0, gini_coefficient |-> 500],
     [top_10_ratio |-> 40, gini_coefficient |-> 901],
     [top_10_ratio |-> 80, gini_coefficient |-> 900],
     [top_10_ratio |-> 120, gini_coefficient |-> 950]}

\* The whale lists handed to create_risk_analysis.
TopHolderInputs == {<<>>, <<"A">>, <<"B", "A">>}

\* RiskScoreAnalyzer.create_risk_analysis(holder_metrics, top_holders): one
\* row per wallet of the classification or of the suspicious set, listed in
\* the set's order and sorted by falling risk score; then the token risk
\* summary from that table, if there are holder metrics.
create_risk_analysis ==
    /\ pc = "classified"
    /\ \E metrics \in HolderMetricsInputs, holders \in TopHolderInputs :
          LET wash_wallets    == suspicious
              all_wallets     == {r.wallet : r \in Rows(classification_results)} \cup wash_wallets
              top_holders_set == Rows(holders)
          IN \E order \in Orders(all_wallets) :
                LET table == SortValuesDescending(
                                [i \in DOMAIN order |->
                                    RiskRow(order[i], classification_results, wash_wallets,
                                            results, top_holders_set)],
                                "risk_score")
                IN /\ risk_results' = table
                   /\ token_risk_data' =
                         IF DOMAIN metrics # {}
                         THEN calculate_token_risk_score(metrics, table)
                         ELSE token_risk_data
                   /\ holder_metrics' = metrics
                   /\ top_holders' = holders
    /\ pc' = "risk_done"
    /\ UNCHANGED <<netVars, user_flows, flowVars, detVars, classification_results, funVars>>

\* Bound of the flow tables of SpecRisk: the number of runs of equal flows.
MaxRiskRuns == 2

\* A run is one flow or as many flows as make its sender eligible.
RiskRunLengths == {1, classify_min_transactions}

InitRisk ==
    /\ pc = "flows_ready"
    /\ suite = "WTD"
    /\ \E k \in 1..MaxRiskRuns :
         \E s \in [1..k -> Wallets2], e \in [1..k -> Wallets2], n \in [1..k -> RiskRunLengths] :
            user_flows = FlowTable([i \in 1..k |->
                            [start_wallet |-> s[i], end_wallet |-> e[i],
                             timestamp |-> i * HoursPerTick, n |-> n[i]]])
    /\ results = <<>> /\ suspicious = {}
    /\ FlowIdle /\ RiskIdle /\ FunIdle
    /\ NetIdle

NextRisk ==
    \/ WTD_run_all_analyses
    \/ classify_wallets
    \/ classify_wallets_raises
    \/ create_risk_analysis

SpecRisk == InitRisk /\ [][NextRisk]_vars

\* The number of analyses whose findings contain the wallet.
DetectorsContaining(wallet) ==
    Cardinality({name \in AnalysisNames :
        CASE name \in {"self_transfers", "volume_concentration"} ->
                \E r \in results[name] : r.wallet = wallet
          [] name \in {"rapid_roundtrips", "high_frequency_pairs"} ->
                \E r \in results[name] : r.wallet_a = wallet \/ r.wallet_b = wallet
          [] name = "circular_patterns" ->
                \E r \in results[name] : wallet \in Rows(r.wallets)
          [] OTHER -> FALSE})

\* C6: for a wallet outside the whale set, risk_score is
\* bot_score * 50 + min(wash_flag_count * 15, 50), where wash_flag_count is
\* the number of detectors whose findings contain the wallet.
C6_NonWhaleAdditive ==
    pc = "risk_done" =>
        \A i \in DOMAIN risk_results :
            ~risk_results[i].is_top_holder =>
                /\ risk_results[i].wash_flag_count = DetectorsContaining(risk_results[i].wallet)
                /\ risk_results[i].risk_score =
                      risk_results[i].bot_score * 50
                      + Points(Min2(risk_results[i].wash_flag_count * 15, 50))

\* What the code computes for a wallet outside the whale set: the flag term
\* is added only for a wallet of the suspicious set.
NonWhaleScoreOfCode ==
    pc = "risk_done" =>
        \A i \in DOMAIN risk_results :
            ~risk_results[i].is_top_holder =>
                risk_results[i].risk_score =
                    risk_results[i].bot_score * 50
                    + (IF risk_results[i].wallet \in suspicious
                       THEN Points(Min2(risk_results[i].wash_flag_count * 15, 50))
                       ELSE 0)

\* The token risk score the holder metrics and the risk table give, over
\* 40 * Len(risk_results).
ClaimedConcentration4 ==
    LET c == Min2(holder_metrics.top_10_ratio * 5, 400)
    IN IF holder_metrics.gini_coefficient > 900 THEN Max2(c, 360) ELSE c
ClaimedBotAgg ==
    Min2(Cardinality({i \in DOMAIN risk_results : risk_results[i].bot_classification = "BOT"}) * 333,
         100 * Len(risk_results))
ClaimedWashAgg ==
    Min2(Cardinality({i \in DOMAIN risk_results : risk_results[i].is_wash_trading}) * 500,
         100 * Len(risk_results))

InUnitRange(q) == q.den > 0 /\ q.num >= 0 /\ q.num <= 100 * q.den

\* C9: the token risk summary is computed from the complete risk table of
\* the run (one row for every classified or suspicious wallet), its score is
\* 0.40 * concentration + 0.30 * bot + 0.30 * wash with concentration =
\* min(top_10_ratio * 1.25, 100), at least 90 when Gini > 0.9, bot =
\* min(bot_wallet_ratio * 333, 100), wash = min(wash_wallet_ratio * 500, 100),
\* and the score and each component are in [0,100].
C9_TokenRiskScore ==
    (pc = "risk_done" /\ DOMAIN holder_metrics # {}) =>
        LET t == token_risk_data.token_risk_score
            c == token_risk_data.risk_components
            N == Len(risk_results)
        IN /\ {risk_results[i].wallet : i \in DOMAIN risk_results}
                 = {r.wallet : r \in Rows(classification_results)} \cup suspicious
           /\ N = Cardinality({risk_results[i].wallet : i \in DOMAIN risk_results})
           /\ c.concentration_risk.num * 4 = ClaimedConcentration4 * c.concentration_risk.den
           /\ c.bot_activity_risk.num * N = ClaimedBotAgg * c.bot_activity_risk.den
           /\ c.wash_trading_risk.num * N = ClaimedWashAgg * c.wash_trading_risk.den
           /\ t.num * 40 * N
                 = (4 * ClaimedConcentration4 * N + 12 * ClaimedBotAgg + 12 * ClaimedWashAgg) * t.den
           /\ InUnitRange(t)
           /\ InUnitRange(c.concentration_risk)
           /\ InUnitRange(c.bot_activity_risk)
           /\ InUnitRange(c.wash_trading_risk)

\* A table of two wallets, one a bot and one a wash trader, with a top-10
\* ratio of 120: the concentration score is capped at 100 and the token
\* score is 100.
C9_Witness ==
    /\ pc = "risk_done"
    /\ DOMAIN holder_metrics # {}
    /\ holder_metrics.top_10_ratio = 120
    /\ Len(risk_results) = 2
    /\ \E i \in DOMAIN risk_results : risk_results[i].bot_classification = "BOT"
    /\ \E i \in DOMAIN risk_results : risk_results[i].is_wash_trading
    /\ token_risk_data.risk_components.concentration_risk = Rat(400, 4)
    /\ token_risk_data.token_risk_score.num = 100 * token_risk_data.token_risk_score.den


(***************************************************************************)
(* Missing features in the bot scorer.                                     *)
(***************************************************************************)

\* The feature dict without the key name.
WithoutFeature(features, name) ==
    [n \in (DOMAIN features) \ {name} |-> features[n]]

\* C11: a missing feature is never a bot signal: on the vector without any
\* API-derived feature no rule fires, every sub-score is 0 and the bot score
\* is 0; and removing a feature from a vector never makes a rule fire that
\* did not fire before.
C11_MissingNeverSignals ==
    pc = "score_done" =>
        /\ DOMAIN args = {} =>
              /\ ret.reasoning = {}
              /\ \A cat \in CategorySet : ret.sub_scores[cat] = 0
              /\ ret.normalized_score = 0
        /\ \A name \in DOMAIN args :
              reasoning(WithoutFeature(args, name)) \subseteq ret.reasoning

\* What the code gives the vector without any feature: the default 0 of
\* flow_balance_ratio satisfies abs(0) < 0.1, so balanced_flow fires and the
\* bot score is the flow weight, 0.05.
EmptyVectorScoreOfCode ==
    (pc = "score_done" /\ DOMAIN args = {}) =>
        /\ ret.reasoning = {"balanced_flow"}
        /\ ret.normalized_score * 100 = 5 * ScoreDen


\* C12: a classified wallet is BOT iff bot_score > 0.6, UNCERTAIN iff
\* 0.4 < bot_score <= 0.6, HUMAN iff bot_score <= 0.4; its confidence is
\* HIGH iff bot_score > 0.7, MEDIUM iff 0.4 < bot_score <= 0.7, LOW iff
\* bot_score <= 0.4; so HUMAN coincides with LOW and HIGH implies BOT.
C12_ClassificationBands ==
    pc = "wallet_classified" =>
        LET s == ret.bot_score * 10
        IN /\ ret.classification = "BOT" <=> s > 6 * ScoreDen
           /\ ret.classification = "UNCERTAIN" <=> (s > 4 * ScoreDen /\ s <= 6 * ScoreDen)
           /\ ret.classification = "HUMAN" <=> s <= 4 * ScoreDen
           /\ ret.bot_confidence = "HIGH" <=> s > 7 * ScoreDen
           /\ ret.bot_confidence = "MEDIUM" <=> (s > 4 * ScoreDen /\ s <= 7 * ScoreDen)
           /\ ret.bot_confidence = "LOW" <=> s <= 4 * ScoreDen
           /\ ret.classification = "HUMAN" <=> ret.bot_confidence = "LOW"
           /\ ret.bot_confidence = "HIGH" => ret.classification = "BOT"

\* A wallet with bot score 0.65: BOT with MEDIUM confidence.
C12_Witness ==
    /\ pc = "wallet_classified"
    /\ ret.bot_score * 100 = 65 * ScoreDen
    /\ ret.classification = "BOT"
    /\ ret.bot_confidence = "MEDIUM"


(***************************************************************************)
(* MultiEndpointDataAggregator._enforce_rate_limit under the worker pool   *)
(* of batch_api_calls: every call runs in its own pool thread, the         *)
(* request_times lists are shared and no lock guards them.  A thread step  *)
(* is one access to the shared lists.  Time is in ticks of half a second.  *)
(***************************************************************************)

\* The stages that no aggregator specification runs.
PipelineIdle == user_flows = <<>> /\ FlowIdle /\ DetIdle /\ RiskIdle /\ FunIdle
pipeVars == <<user_flows, flowVars, detVars, riskVars, funVars>>

\* window = 1.0 second, in ticks.
window == 2

\* limit = 1 if endpoint_type == 'heavy' else 20
limit(endpoint_type) == IF endpoint_type = "heavy" THEN 1 ELSE 20

\* [t for t in request_times[endpoint_type] if now - t < window]
prune(times, now) == SelectSeq(times, LAMBDA t : now - t < window)

\* now = time.time()
RL_ReadNow(i) ==
    /\ threads[i].pc = "start"
    /\ threads' = [threads EXCEPT ![i].pc = "prune_read", ![i].now = clock]
    /\ UNCHANGED <<pc, clock, request_times, cache, batch, http, call, pipeVars>>

\* The list comprehension reads the shared list ...
RL_PruneRead(i) ==
    /\ threads[i].pc = "prune_read"
    /\ threads' = [threads EXCEPT
                      ![i].pc = "prune_write",
                      ![i].kept = prune(request_times[threads[i].endpoint_type], threads[i].now)]
    /\ UNCHANGED <<pc, clock, request_times, cache, batch, http, call, pipeVars>>

\* ... and its result replaces the shared list.
RL_PruneWrite(i) ==
    /\ threads[i].pc = "prune_write"
    /\ request_times' = [request_times EXCEPT ![threads[i].endpoint_type] = threads[i].kept]
    /\ threads' = [threads EXCEPT ![i].pc = "check"]
    /\ UNCHANGED <<pc, clock, cache, batch, http, call, pipeVars>>

\* if len(request_times) >= limit: sleep_time = window - (now - oldest);
\* the thread sleeps if sleep_time > 0.
RL_Check(i) ==
    /\ threads[i].pc = "check"
    /\ LET times == request_times[threads[i].endpoint_type]
       IN IF Len(times) >= limit(threads[i].endpoint_type)
          THEN LET sleep_time == window - (threads[i].now - times[1])
               IN threads' = [threads EXCEPT
                                 ![i].pc = IF sleep_time > 0 THEN "sleeping" ELSE "append",
                                 ![i].oldest = times[1],
                                 ![i].wake = clock + Max2(sleep_time, 0)]
          ELSE threads' = [threads EXCEPT ![i].pc = "append"]
    /\ UNCHANGED <<pc, clock, request_times, cache, batch, http, call, pipeVars>>

\* time.sleep(sleep_time) returns, no earlier than asked.
RL_Wake(i) ==
    /\ threads[i].pc = "sleeping"
    /\ clock >= threads[i].wake
    /\ threads' = [threads EXCEPT ![i].pc = "append"]
    /\ UNCHANGED <<pc, clock, request_times, cache, batch, http, call, pipeVars>>

\* request_times[endpoint_type].append(time.time()): the request is admitted.
RL_Append(i) ==
    /\ threads[i].pc = "append"
    /\ request_times' = [request_times EXCEPT
                            ![threads[i].endpoint_type] = Append(@, clock)]
    /\ http' = [http EXCEPT ![threads[i].endpoint_type] = Append(@, clock)]
    /\ threads' = [threads EXCEPT ![i].pc = "admitted", ![i].admitted_at = clock]
    /\ UNCHANGED <<pc, clock, cache, batch, call, pipeVars>>

\* Bounds of SpecRateLimit: the number of concurrent calls and the last tick.
MaxCalls == 2
MaxClock == 3

\* Time passes.
RL_Tick ==
    /\ pc = "rate_limit"
    /\ clock < MaxClock
    /\ clock' = clock + 1
    /\ UNCHANGED <<pc, request_times, cache, threads, batch, http, call, pipeVars>>

EndpointTypes == {"standard", "heavy"}

InitRateLimit ==
    /\ pc = "rate_limit"
    /\ clock = 0
    /\ request_times = [c \in EndpointTypes |-> <<>>]
    /\ http = [c \in EndpointTypes |-> <<>>]
    /\ \E n \in 1..MaxCalls :
         \E cls \in [1..n -> EndpointTypes] :
            threads = [i \in 1..n |->
                          [pc |-> "start", endpoint_type |-> cls[i], now |-> 0,
                           kept |-> <<>>, oldest |-> 0 - 1, wake |-> 0,
                           admitted_at |-> 0 - 1]]
    /\ cache = <<>> /\ batch = <<>> /\ call = <<>>
    /\ PipelineIdle

NextRateLimit ==
    \/ RL_Tick
    \/ \E i \in DOMAIN threads :
          \/ RL_ReadNow(i)
          \/ RL_PruneRead(i)
          \/ RL_PruneWrite(i)
          \/ RL_Check(i)
          \/ RL_Wake(i)
          \/ RL_Append(i)

SpecRateLimit == InitRateLimit /\ [][NextRateLimit]_vars

\* The requests of a class admitted in the window that starts at time t.
AdmittedInWindow(endpoint_type, t) ==
    Cardinality({j \in DOMAIN http[endpoint_type] :
                    /\ http[endpoint_type][j] >= t
                    /\ http[endpoint_type][j] < t + window})

\* C13: with concurrent callers, every 1-second window holds at most 1
\* admitted heavy request and at most 20 admitted standard requests, and a
\* call that found its class at capacity is admitted only after the oldest
\* timestamp of the class has aged out.
C13_RateBudget ==
    /\ \A c \in EndpointTypes :
          \A j \in DOMAIN http[c] :
              AdmittedInWindow(c, http[c][j]) <= IF c = "heavy" THEN 1 ELSE 20
    /\ \A i \in DOMAIN threads :
          (threads[i].pc = "admitted" /\ threads[i].oldest >= 0) =>
              threads[i].admitted_at >= threads[i].oldest + window

\* The waiting rule alone, which the code keeps: a call that found its class
\* at capacity is admitted no earlier than one window after the oldest
\* timestamp it saw.
WaitsForOldest ==
    \A i \in DOMAIN threads :
        (threads[i].pc = "admitted" /\ threads[i].oldest >= 0) =>
            threads[i].admitted_at >= threads[i].oldest + window


(***************************************************************************)
(* MultiEndpointDataAggregator.batch_api_calls: the calls are submitted to *)
(* a pool, the main thread takes the futures in completion order and       *)
(* writes each outcome into the results list.  threads[i] is the future of *)
(* calls[i]; the payload of a call is named after its request.             *)
(***************************************************************************)

max_workers == 5

\* The requests a batch is made of.
Requests == {"/transfers?base=A", "/balances/address/A", "/flow/address/B"}

\* The slot of the arrival order.
ResultSlotByArrival(idx, arrival) == arrival

\* results[idx] = future.result(): the slot a completed future is written to,
\* idx = future_to_index[future], whatever its place in the completion order.
ResultSlot(idx, arrival) == idx

\* results = [None] * len(calls), and every call is submitted.
Batch_Submit ==
    /\ pc = "batch_call"
    /\ batch' = [batch EXCEPT !.results = [i \in DOMAIN batch.calls |-> NoneVal]]
    /\ threads' = [i \in DOMAIN batch.calls |-> [pc |-> "queued", outcome |-> NoneVal]]
    /\ pc' = "collecting"
    /\ UNCHANGED <<clock, request_times, cache, http, call, pipeVars>>

\* A pool worker takes a queued call, if fewer than max_workers are running.
Batch_Start(i) ==
    /\ pc = "collecting"
    /\ threads[i].pc = "queued"
    /\ Cardinality({j \in DOMAIN threads : threads[j].pc = "running"}) < max_workers
    /\ threads' = [threads EXCEPT ![i].pc = "running"]
    /\ UNCHANGED <<pc, clock, request_times, cache, batch, http, call, pipeVars>>

\* api_call of a running future ends: with the payload of its request, with
\* None, or with an exception.
Batch_Finish(i) ==
    /\ pc = "collecting"
    /\ threads[i].pc = "running"
    /\ \E outcome \in {batch.calls[i], NoneVal, "raised"} :
          threads' = [threads EXCEPT ![i].pc = "done", ![i].outcome = outcome]
    /\ batch' = [batch EXCEPT !.completed = Append(@, i)]
    /\ UNCHANGED <<pc, clock, request_times, cache, http, call, pipeVars>>

\* as_completed yields the next completed future; its result, or None if it
\* raised, is written to its slot.
Batch_Collect ==
    /\ pc = "collecting"
    /\ batch.collected < Len(batch.completed)
    /\ LET arrival == batch.collected + 1
           idx     == batch.completed[arrival]
           value   == IF threads[idx].outcome = "raised" THEN NoneVal
                      ELSE threads[idx].outcome
       IN batch' = [batch EXCEPT !.collected = arrival,
                                 !.results[ResultSlot(idx, arrival)] = value]
    /\ UNCHANGED <<pc, clock, request_times, cache, threads, http, call, pipeVars>>

\* as_completed is exhausted after len(calls) futures; the pool is shut down
\* and the results are returned.
Batch_Return ==
    /\ pc = "collecting"
    /\ batch.collected = Len(batch.calls)
    /\ pc' = "batch_returned"
    /\ UNCHANGED <<clock, request_times, cache, threads, batch, http, call, pipeVars>>

\* Bound of SpecBatch: the number of calls of a batch.
MaxBatch == 3

InitBatch ==
    /\ pc = "batch_call"
    /\ \E n \in 0..MaxBatch :
         \E calls \in [1..n -> Requests] :
            batch = [calls |-> calls, results |-> <<>>, completed |-> <<>>, collected |-> 0]
    /\ threads = <<>>
    /\ clock = 0 /\ request_times = <<>> /\ cache = <<>> /\ http = <<>>
    /\ call = <<>>
    /\ PipelineIdle

NextBatch ==
    \/ Batch_Submit
    \/ \E i \in DOMAIN threads : Batch_Start(i) \/ Batch_Finish(i)
    \/ Batch_Collect
    \/ Batch_Return

SpecBatch == InitBatch /\ [][NextBatch]_vars

\* C14: batch_api_calls returns a list as long as its input in which
\* position i holds the outcome of calls[i], payload or None, whatever the
\* completion order; a call that failed or raised gives None at its own
\* position only; and the batch returns only after every call has completed.
C14_PositionalResults ==
    pc = "batch_returned" =>
        /\ Len(batch.results) = Len(batch.calls)
        /\ \A i \in DOMAIN batch.calls :
              /\ threads[i].pc = "done"
              /\ batch.results[i] =
                    IF threads[i].outcome \in {NoneVal, "raised"} THEN NoneVal
                    ELSE batch.calls[i]

\* Three different calls, the last one completed first, the first one raised
\* and the others succeeded.
C14_Witness ==
    /\ pc = "batch_returned"
    /\ Len(batch.calls) = 3
    /\ batch.completed[1] = 3
    /\ threads[1].outcome = "raised"
    /\ batch.results[1] = NoneVal
    /\ batch.results[2] = batch.calls[2] /\ batch.results[3] = batch.calls[3]
    /\ batch.calls[2] # batch.calls[3]




(***************************************************************************)
(* MultiEndpointDataAggregator.api_call with its cache, called by one      *)
(* thread again and again.  The clock of this specification counts ticks   *)
(* of HoursPerTick hours; an endpoint is the sequence of its path tokens;  *)
(* params is a set of <<name, value>> pairs.  call is the frame of the     *)
(* call in progress and, once it has returned, the record of what it did:  *)
(* log has one entry per HTTP attempt.  http is history: for each request  *)
(* the last payload api_call stored for it.                                *)
(***************************************************************************)

retries == 3

max_age_hours == 24

\* Calls of batch_fetch_wallet_data for a wallet W, each an endpoint (its
\* path tokens) and the items of a parameter dict: /transfers with and
\* without a null timeLast, and the enriched-intelligence endpoint.  The
\* caller's dict lists its items in some order.
Calls ==
    { << <<"/", "transfers">>, {<<"base", "W">>} >>,
      << <<"/", "transfers">>, {<<"base", "W">>, <<"timeLast", NoneVal>>} >>,
      << <<"/", "intelligence", "/", "address", "_", "enriched", "/", "W", "/", "all">>,
         {<<"includeTags", "true">>, <<"includeEntityPredictions", "true">>} >> }

Payloads == {"payload 1", "payload 2"}

heavy_endpoints == {"transfers", "counterparties"}

_is_heavy_endpoint(endpoint) ==
    \E i \in DOMAIN endpoint : endpoint[i] \in heavy_endpoints

\* endpoint.replace('/', '_')
replace_slashes(endpoint) ==
    [i \in DOMAIN endpoint |-> IF endpoint[i] = "/" THEN "_" ELSE endpoint[i]]

\* The parameters that are not None (sorted: a set has one order).
non_null(params) == {p \in params : p[2] # NoneVal}

\* The parameter names in the order of sorted().
ParamNames == <<"base", "includeEntityPredictions", "includeTags", "timeLast">>

\* The items as the dict lists them.
insertion_order(items) == items

\* sorted(params.items()): a dict has one item per name.
sorted_items(items) ==
    LET place(p) == CHOOSE i \in DOMAIN ParamNames : ParamNames[i] = p[1]
    IN [i \in DOMAIN items |->
           CHOOSE p \in Rows(items) :
               Cardinality({q \in Rows(items) : place(q) < place(p)}) = i - 1]

\* "_".join(f"{k}={v}" for k, v in sorted(params.items()) if v is not None)
param_str(items) == SelectSeq(sorted_items(items), LAMBDA p : p[2] # NoneVal)

_get_cache_path(endpoint, items) == <<replace_slashes(endpoint), param_str(items)>>

\* The cache without the age test.
_load_from_cache_any_age(files, cache_path, now) ==
    IF cache_path \notin DOMAIN files THEN NoneVal
    ELSE files[cache_path].data

\* None if the file is missing or older than max_age_hours, else its content.
_load_from_cache(files, cache_path, now) ==
    IF cache_path \notin DOMAIN files THEN NoneVal
    ELSE IF (now - files[cache_path].mtime) * HoursPerTick > max_age_hours THEN NoneVal
    ELSE files[cache_path].data

\* The file is written with the time of the write.
_save_to_cache(files, cache_path, data, now) ==
    [p \in DOMAIN files \cup {cache_path} |->
        IF p = cache_path THEN [data |-> data, mtime |-> now] ELSE files[p]]

\* _enforce_rate_limit as one step of the only caller: the times of earlier
\* ticks are older than the window and dropped, of the times of this tick any
\* suffix may still be inside the window; the time of this call is appended.
Suffixes(s) == {SubSeq(s, k, Len(s)) : k \in 1..(Len(s) + 1)}

_enforce_rate_limit(times, endpoint, now) ==
    LET endpoint_type == IF _is_heavy_endpoint(endpoint) THEN "heavy" ELSE "standard"
        recent        == SelectSeq(times[endpoint_type], LAMBDA t : t = now)
    IN {[times EXCEPT ![endpoint_type] = Append(kept, now)] : kept \in Suffixes(recent)}

\* What names a request in the claims: the endpoint and the non-null parameters.
RequestId(endpoint, params) == <<endpoint, non_null(params)>>

RequestIds == {RequestId(c[1], c[2]) : c \in Calls}

\* A sleep that does not grow.
Pow2Flat(n) == 1

\* 2 ** attempt
Pow2(n) == IF n = 0 THEN 1 ELSE IF n = 1 THEN 2 ELSE IF n = 2 THEN 4 ELSE 8

\* Bounds of SpecApiCall: the number of calls and the last tick.
MaxApiCalls == 3
MaxApiClock == 3

\* api_call up to the retry loop, elapsed ticks after the call before: the
\* cache is read; a hit returns at once, a miss goes through the rate
\* limiter to the first attempt.
Api_Call ==
    /\ pc \in {"api_call", "api_returned", "api_raised"}
    /\ call.n < MaxApiCalls
    /\ \E c \in Calls, elapsed \in 0..(MaxApiClock - clock) :
       \E items \in Orders(c[2]) :
         LET endpoint    == c[1]
             params      == c[2]
             now         == clock + elapsed
             cache_path  == _get_cache_path(endpoint, items)
             cached_data == _load_from_cache(cache, cache_path, now)
             frame       == [n |-> call.n + 1, endpoint |-> endpoint, params |-> params,
                             items |-> items,
                             prior |-> http[RequestId(endpoint, params)],
                             attempt |-> 0, log |-> <<>>, limited |-> 0,
                             ret |-> cached_data]
         IN /\ clock' = now
            /\ IF cached_data # NoneVal
               THEN /\ call' = frame
                    /\ pc' = "api_returned"
                    /\ UNCHANGED request_times
               ELSE /\ call' = [frame EXCEPT !.limited = 1]
                    /\ pc' = "api_attempt"
                    /\ request_times' \in _enforce_rate_limit(request_times, endpoint, now)
    /\ UNCHANGED <<cache, threads, batch, http, pipeVars>>

\* The loop is left: api_call returns value.
Api_Return(value, entry) ==
    /\ call' = [call EXCEPT !.log = Append(@, entry), !.ret = value]
    /\ pc' = "api_returned"

\* The next iteration of the loop, if there is one; else return None.
Api_Continue(entry) ==
    /\ call' = [call EXCEPT !.log = Append(@, entry), !.attempt = @ + 1]
    /\ pc' = IF call.attempt + 1 < retries THEN "api_attempt" ELSE "api_returned"

\* One iteration of `for attempt in range(retries)`: one GET and what
\* follows from the answer.  "error" is a transport error or a status that
\* raise_for_status rejects.  A 200 answer carries a payload, or a body that
\* is not JSON: response.json() then raises, an exception that is a
\* RequestException or a plain ValueError depending on the installed
\* requests library.  The write of the cache file may fail silently.
Api_Attempt ==
    /\ pc = "api_attempt"
    /\ \/ /\ Api_Continue([status |-> "429", slept |-> Pow2(call.attempt)])
          /\ UNCHANGED <<cache, http>>
       \/ /\ Api_Return(NoneVal, [status |-> "404", slept |-> 0])
          /\ UNCHANGED <<cache, http>>
       \/ \E data \in Payloads :
            /\ Api_Return(data, [status |-> "200", slept |-> 0])
            /\ \/ /\ cache' = _save_to_cache(cache, _get_cache_path(call.endpoint, call.items),
                                             data, clock)
                  /\ http' = [http EXCEPT ![RequestId(call.endpoint, call.params)] =
                                 [stored |-> TRUE, data |-> data, at |-> clock]]
               \/ UNCHANGED <<cache, http>>
       \/ \E status \in {"error", "200 bad body"} :
            /\ IF call.attempt = retries - 1
               THEN Api_Return(NoneVal, [status |-> status, slept |-> 0])
               ELSE Api_Continue([status |-> status, slept |-> 1])
            /\ UNCHANGED <<cache, http>>
       \/ /\ call' = [call EXCEPT !.log = Append(@, [status |-> "200 bad body", slept |-> 0])]
          /\ pc' = "api_raised"
          /\ UNCHANGED <<cache, http>>
    /\ UNCHANGED <<clock, request_times, threads, batch, pipeVars>>

InitApiCall ==
    /\ pc = "api_call"
    /\ clock = 0
    /\ request_times = [c \in EndpointTypes |-> <<>>]
    /\ cache = <<>>
    /\ http = [r \in RequestIds |-> [stored |-> FALSE, data |-> NoneVal, at |-> 0]]
    /\ \E c \in Calls :
          call = [n |-> 0, endpoint |-> c[1], params |-> c[2], items |-> <<>>,
                  prior |-> [stored |-> FALSE, data |-> NoneVal, at |-> 0],
                  attempt |-> 0, log |-> <<>>, limited |-> 0, ret |-> NoneVal]
    /\ threads = <<>> /\ batch = <<>>
    /\ PipelineIdle

NextApiCall == Api_Call \/ Api_Attempt

SpecApiCall == InitApiCall /\ [][NextApiCall]_vars

\* The loop of api_call goes on: every GET has a timeout and every sleep ends.
SpecApiCallFair == SpecApiCall /\ WF_vars(Api_Attempt)

\* C15: a call for a request whose payload api_call stored earlier, made
\* before max_age_hours have passed since the store, returns that payload
\* without the rate limiter and without a GET; made after more than
\* max_age_hours, it makes a GET.
C15_CacheHitWithinTTL ==
    (pc = "api_returned" /\ call.n > 0 /\ call.prior.stored) =>
        /\ (clock - call.prior.at) * HoursPerTick < max_age_hours =>
              /\ call.ret = call.prior.data
              /\ call.limited = 0
              /\ call.log = <<>>
        /\ (clock - call.prior.at) * HoursPerTick > max_age_hours =>
              /\ call.limited = 1
              /\ Len(call.log) >= 1

\* A hit on a payload stored one tick earlier under the same parameters plus
\* a null one.
C15_Witness ==
    /\ pc = "api_returned" /\ call.n > 0 /\ call.prior.stored
    /\ clock = call.prior.at + 1
    /\ <<"timeLast", NoneVal>> \in call.params
    /\ call.ret = call.prior.data /\ call.log = <<>> /\ call.limited = 0

\* A state in which a call after expiry has fetched a payload different from
\* the stored one.
C15_ExpiredRefetch ==
    /\ pc = "api_returned" /\ call.n > 0 /\ call.prior.stored
    /\ (clock - call.prior.at) * HoursPerTick > max_age_hours
    /\ call.ret \in Payloads /\ call.ret # call.prior.data


\* What C16 says of a state of api_call: the log of its HTTP attempts and
\* the way it ended.
RetryPolicy ==
    call.n > 0 =>
        /\ Len(call.log) <= retries
        /\ pc = "api_attempt" => Len(call.log) < retries
        /\ pc = "api_returned" => call.ret \in Payloads \cup {NoneVal}
        /\ pc = "api_raised" => call.log[Len(call.log)].status = "200 bad body"
        /\ \A j \in DOMAIN call.log :
              LET entry    == call.log[j]
                  followed == j < Len(call.log) \/ pc = "api_attempt"
                  gave_up  == j = Len(call.log) /\ pc = "api_returned" /\ call.ret = NoneVal
              IN CASE entry.status = "429" ->
                        /\ entry.slept = 2^(j - 1)
                        /\ IF j < retries THEN followed ELSE gave_up
                   [] entry.status = "404" ->
                        /\ gave_up
                        /\ entry.slept = 0
                   [] entry.status = "200" ->
                        /\ j = Len(call.log) /\ pc = "api_returned"
                        /\ call.ret \in Payloads
                   [] OTHER ->
                        \/ j = Len(call.log) /\ pc = "api_raised"
                        \/ IF j < retries THEN followed /\ entry.slept = 1 ELSE gave_up

\* C16: api_call makes at most `retries` HTTP attempts and always ends, with
\* a payload or None and with no exception for an HTTP status or a transport
\* error; a 429 is followed by a sleep of 2^attempt seconds and, while budget
\* remains, another attempt; a 404 returns None at once; any other error is
\* followed by a 1-second delay and another attempt; None is returned when
\* the budget is used up.
C16_RetryBudget ==
    /\ []RetryPolicy
    /\ (pc = "api_attempt") ~> (pc \in {"api_returned", "api_raised"})

\* Three attempts answered 429, error, 429: slept 1, 1 and 4 seconds, None.
C16_Witness ==
    /\ pc = "api_returned" /\ call.n > 0 /\ call.ret = NoneVal
    /\ Len(call.log) = retries
    /\ call.log[1] = [status |-> "429", slept |-> 1]
    /\ call.log[2] = [status |-> "error", slept |-> 1]
    /\ call.log[3] = [status |-> "429", slept |-> 4]


(***************************************************************************)
(* The three fetch paths against a provider that answers 429 to every      *)
(* request.  threads[path] is the position of each path: at its GET        *)
(* ("request") or in the sleep that follows a 429 ("sleeping"), with the   *)
(* number of attempts its own code counts: api_call its loop index,        *)
(* _make_request the depth of its recursion, fetch_token_transfers nothing.*)
(***************************************************************************)

Paths == {"fetch_token_transfers", "get_all_transfers", "api_call"}

\* Bound of SpecAlways429: the recursion depth at which the interpreter's
\* stack is exhausted at the latest.
MaxDepth == 40

\* A GET of the path, answered 429.
Answer429(path) ==
    /\ pc = "always_429"
    /\ threads[path].pc = "request"
    /\ threads' = [threads EXCEPT ![path].pc = "sleeping"]
    /\ UNCHANGED <<pc, clock, request_times, cache, batch, http, call, pipeVars>>

\* fetch_token_transfers after a 429: time.sleep(5); continue.  Neither
\* all_transfers nor consecutive_errors has changed: the loop condition is
\* what it was.
FTT_Continue ==
    /\ pc = "always_429"
    /\ threads["fetch_token_transfers"].pc = "sleeping"
    /\ threads' = [threads EXCEPT !["fetch_token_transfers"].pc = "request"]
    /\ UNCHANGED <<pc, clock, request_times, cache, batch, http, call, pipeVars>>

\* _make_request after a 429: time.sleep(60); return self._make_request(...),
\* one frame deeper.
MR_Recurse ==
    /\ pc = "always_429"
    /\ threads["get_all_transfers"].pc = "sleeping"
    /\ threads["get_all_transfers"].attempt < MaxDepth
    /\ threads' = [threads EXCEPT !["get_all_transfers"].pc = "request",
                                  !["get_all_transfers"].attempt = @ + 1]
    /\ UNCHANGED <<pc, clock, request_times, cache, batch, http, call, pipeVars>>

\* The recursion exhausts the stack: RecursionError, which no handler of
\* _make_request, get_transfers or get_all_transfers catches.  How deep that
\* is depends on the frames of the caller; MaxDepth at the latest.
MR_RecursionError ==
    /\ pc = "always_429"
    /\ threads["get_all_transfers"].pc = "sleeping"
    /\ threads["get_all_transfers"].attempt >= 1
    /\ threads' = [threads EXCEPT !["get_all_transfers"].pc = "raised"]
    /\ UNCHANGED <<pc, clock, request_times, cache, batch, http, call, pipeVars>>

\* api_call after a 429: time.sleep(2 ** attempt); continue; after the last
\* attempt the loop is over and None is returned.
AC_Continue ==
    /\ pc = "always_429"
    /\ threads["api_call"].pc = "sleeping"
    /\ threads' = [threads EXCEPT
                      !["api_call"].pc = IF threads["api_call"].attempt + 1 < retries
                                         THEN "request" ELSE "returned",
                      !["api_call"].attempt = @ + 1]
    /\ UNCHANGED <<pc, clock, request_times, cache, batch, http, call, pipeVars>>

InitAlways429 ==
    /\ pc = "always_429"
    /\ threads = [path \in Paths |-> [pc |-> "request", attempt |-> 0]]
    /\ clock = 0 /\ request_times = <<>> /\ cache = <<>> /\ batch = <<>>
    /\ http = <<>> /\ call = <<>>
    /\ PipelineIdle

NextAlways429 ==
    \/ \E path \in Paths : Answer429(path)
    \/ FTT_Continue
    \/ MR_Recurse
    \/ MR_RecursionError
    \/ AC_Continue

\* Every GET has a timeout of 30 seconds and every sleep ends, so each step
\* of each path is taken; a deeper recursion is taken while the stack allows.
SpecAlways429 ==
    /\ InitAlways429 /\ [][NextAlways429]_vars
    /\ \A path \in Paths : WF_vars(Answer429(path))
    /\ WF_vars(FTT_Continue)
    /\ WF_vars(MR_Recurse \/ MR_RecursionError)
    /\ WF_vars(AC_Continue)

Ended(path) == threads[path].pc \in {"returned", "raised"}

\* C17: under a provider that answers 429 to every request, every fetch path
\* ends after finitely many attempts: fetch_token_transfers, the client
\* request of get_all_transfers and api_call.
C17_EveryPathGivesUp ==
    <>(\A path \in Paths : Ended(path))

\* What the code keeps: api_call returns None after `retries` attempts, and
\* the client request ends, with a RecursionError.
BoundedPathsEnd ==
    /\ <>(threads["api_call"].pc = "returned" /\ threads["api_call"].attempt = retries)
    /\ <>(threads["get_all_transfers"].pc = "raised")
    /\ [](threads["get_all_transfers"].pc # "returned")

\* fetch_token_transfers never ends.
FetchTokenTransfersLoops ==
    [](threads["fetch_token_transfers"].pc \in {"request", "sleeping"})


(***************************************************************************)
(* The loop of detect_circular_patterns over nx.simple_cycles(G), a        *)
(* generator that computes one elementary circuit per request.  args.total *)
(* is the number of circuits of the graph; ret counts the circuits the     *)
(* generator was asked for and the circuits the loop body looked at.       *)
(***************************************************************************)

\* Bound of SpecCycleSearch: the most circuits a graph has.
MaxCycles == 1002

\* TransactionBasedWashTradingDetector: one turn of
\* `for i, cycle in enumerate(nx.simple_cycles(G))`: the next circuit is
\* asked for; if there is none the loop ends; if i >= cycle_limit the loop
\* is left; else the body looks at the circuit.
TB_NextCycle ==
    /\ pc = "cycle_search" /\ suite = "TB"
    /\ IF ret.requested = args.total
       THEN /\ pc' = "search_done"
            /\ UNCHANGED ret
       ELSE LET i == ret.requested
            IN IF i >= cycle_limit
               THEN /\ ret' = [ret EXCEPT !.requested = @ + 1]
                    /\ pc' = "search_done"
               ELSE /\ ret' = [ret EXCEPT !.requested = @ + 1, !.looked_at = @ + 1]
                    /\ UNCHANGED pc
    /\ UNCHANGED <<netVars, user_flows, args, flowVars, detVars, riskVars>>

\* WashTradingDetector: list(nx.simple_cycles(G)) asks for the next circuit
\* as long as there is one.
WTD_ListNextCycle ==
    /\ pc = "cycle_search" /\ suite = "WTD"
    /\ ret.requested < args.total
    /\ ret' = [ret EXCEPT !.requested = @ + 1]
    /\ UNCHANGED <<pc, netVars, user_flows, args, flowVars, detVars, riskVars>>

\* WashTradingDetector: the list is complete; [:1000] keeps its first 1000
\* circuits and the loop looks at each of them.
WTD_SliceAndLoop ==
    /\ pc = "cycle_search" /\ suite = "WTD"
    /\ ret.requested = args.total
    /\ ret' = [ret EXCEPT !.looked_at = Min2(args.total, cycle_limit)]
    /\ pc' = "search_done"
    /\ UNCHANGED <<netVars, user_flows, args, flowVars, detVars, riskVars>>

\* Graphs with few circuits and graphs with about cycle_limit circuits and
\* more.
InitCycleSearch ==
    /\ pc = "cycle_search"
    /\ suite \in {"TB", "WTD"}
    /\ \E total \in {t \in 0..MaxCycles : t <= 3 \/ t >= cycle_limit - 1} :
          args = [total |-> total]
    /\ ret = [requested |-> 0, looked_at |-> 0]
    /\ user_flows = <<>> /\ results = <<>> /\ suspicious = {}
    /\ FlowIdle /\ RiskIdle
    /\ NetIdle

NextCycleSearch == TB_NextCycle \/ WTD_ListNextCycle \/ WTD_SliceAndLoop

SpecCycleSearch == InitCycleSearch /\ [][NextCycleSearch]_vars

\* C18: in both suites the search for circuits is stopped once cycle_limit
\* circuits have been enumerated: no further circuit is asked of the
\* enumeration.
C18_SearchStopsAtLimit ==
    pc \in {"cycle_search", "search_done"} => ret.requested <= cycle_limit

\* What the code keeps: the loop body looks at no more than cycle_limit
\* circuits; the transaction-based suite asks for one circuit more than it
\* looks at, the other suite for every circuit of the graph.
LoopLooksAtLimit ==
    pc \in {"cycle_search", "search_done"} =>
        /\ ret.looked_at <= cycle_limit
        /\ suite = "TB" => ret.requested <= cycle_limit + 1
        /\ (suite = "WTD" /\ pc = "search_done") => ret.requested = args.total
        /\ pc = "search_done" => ret.looked_at = Min2(args.total, cycle_limit)


(***************************************************************************)
(* Circular patterns alone, on three wallets and single flows, for every   *)
(* max_cycle_length up to the default.                                     *)
(***************************************************************************)

\* TransactionBasedWashTradingDetector.detect_circular_patterns
TB_detect_circular_patterns ==
    /\ pc = "flows_ready" /\ suite = "TB"
    /\ results' = [name \in {"circular_patterns"} |->
                      detect_circular_patterns(user_flows, args.max_cycle_length)]
    /\ pc' = "circular_done"
    /\ UNCHANGED <<netVars, user_flows, suite, suspicious, flowVars, riskVars, funVars>>

\* Bound of the flow tables of SpecCircular: the number of flows.
MaxCircularFlows == 4

InitCircular ==
    /\ pc = "flows_ready"
    /\ suite = "TB"
    /\ \E k \in 1..MaxCircularFlows :
         \E runs \in [1..k -> RunsOver(Wallets, 0, {1})] :
            user_flows = FlowTable(runs)
    /\ \E m \in 2..max_cycle_length : args = [max_cycle_length |-> m]
    /\ ret = <<>>
    /\ results = <<>> /\ suspicious = {}
    /\ FlowIdle /\ RiskIdle
    /\ NetIdle

NextCircular == TB_detect_circular_patterns

SpecCircular == InitCircular /\ [][NextCircular]_vars

\* The flows along a cycle: those from a wallet of the cycle to the next
\* one, the last wallet's next being the first.
OnCycle(wallets, row) ==
    \E j \in DOMAIN wallets :
        /\ row.start_wallet = wallets[j]
        /\ row.end_wallet = wallets[(j % Len(wallets)) + 1]

CycleEdges(wallets) ==
    {<<wallets[j], wallets[(j % Len(wallets)) + 1]>> : j \in DOMAIN wallets}

FlowEdges == {<<user_flows[i].start_wallet, user_flows[i].end_wallet>> : i \in DOMAIN user_flows}

\* C19: every reported cycle is a simple cycle of the flow graph of length
\* 2..max_cycle_length (so no self-loop), no cycle is reported twice, and its
\* volume and transaction count are the sums over all flows along the cycle,
\* the flows from the last wallet to the first included; when the graph is
\* A -> B -> C -> A, exactly one cycle is reported, of length 3 and with the
\* volume of all flows.
C19_SimpleCyclesOnce ==
    pc = "circular_done" =>
        LET found == results["circular_patterns"]
        IN /\ \A r \in found :
                /\ r.cycle_length = Len(r.wallets)
                /\ 2 <= r.cycle_length /\ r.cycle_length <= args.max_cycle_length
                /\ \A i, j \in DOMAIN r.wallets : i # j => r.wallets[i] # r.wallets[j]
                /\ CycleEdges(r.wallets) \subseteq FlowEdges
                /\ r.total_volume_usd =
                      SumSeq([i \in DOMAIN user_flows |->
                                 IF OnCycle(r.wallets, user_flows[i])
                                 THEN user_flows[i].usd_value ELSE 0])
                /\ r.total_transactions =
                      Cardinality({i \in DOMAIN user_flows : OnCycle(r.wallets, user_flows[i])})
           /\ \A r1, r2 \in found :
                CycleEdges(r1.wallets) = CycleEdges(r2.wallets) => r1 = r2
           /\ (/\ FlowEdges = {<<"A", "B">>, <<"B", "C">>, <<"C", "A">>}
               /\ args.max_cycle_length >= 3)
              => /\ Cardinality(found) = 1
                 /\ \A r \in found :
                       /\ r.cycle_length = 3
                       /\ r.total_volume_usd =
                             SumSeq([i \in DOMAIN user_flows |-> user_flows[i].usd_value])

\* The graph A -> B -> C -> A with two flows from C to A: one cycle of
\* length 3 over four transactions.
C19_Witness ==
    /\ pc = "circular_done"
    /\ Len(user_flows) = 4
    /\ FlowEdges = {<<"A", "B">>, <<"B", "C">>, <<"C", "A">>}
    /\ Cardinality({i \in DOMAIN user_flows : user_flows[i].start_wallet = "C"}) = 2
    /\ \E r \in results["circular_patterns"] :
          /\ r.cycle_length = 3 /\ r.total_transactions = 4
          /\ r.total_volume_usd = 1 + 2 + 3 + 4


(***************************************************************************)
(* From the flow table to the analyses: what the two pipelines do with the *)
(* table their extractor has produced, empty or not.  extractor names the  *)
(* pipeline: "detector" is TransactionBasedWashTradingDetector and its     *)
(* main, "fetcher" is LiveDataFetcher.fetch_and_process_token and the      *)
(* analyze_token that calls it.                                            *)
(***************************************************************************)

\* main of detect_wash_trading.py on an empty table: nothing is run.
TB_main_no_flows ==
    /\ pc = "flows_done" /\ extractor = "detector"
    /\ Len(user_flows) = 0
    /\ pc' = "no_data"
    /\ UNCHANGED <<netVars, user_flows, flowVars, detVars, riskVars, funVars>>

\* run_all_analyses is called on the detector: by main when the table is not
\* empty, by any other caller whatever the table.
TB_call_run_all_analyses ==
    /\ pc = "flows_done" /\ extractor = "detector"
    /\ suite' = "TB"
    /\ pc' = "flows_ready"
    /\ UNCHANGED <<netVars, user_flows, results, suspicious, flowVars, riskVars, funVars>>

\* fetch_and_process_token returns None for an empty table and analyze_token
\* returns None in turn.
analyze_token_no_data ==
    /\ pc = "flows_done" /\ extractor = "fetcher"
    /\ Len(user_flows) = 0
    /\ pc' = "no_data"
    /\ UNCHANGED <<netVars, user_flows, flowVars, detVars, riskVars, funVars>>

\* analyze_token without the test of the table.
analyze_token_unguarded ==
    /\ pc = "flows_done" /\ extractor = "fetcher"
    /\ suite' = "WTD"
    /\ pc' = "flows_ready"
    /\ UNCHANGED <<netVars, user_flows, results, suspicious, flowVars, riskVars, funVars>>

\* analyze_token with a table that is not empty: WashTradingDetector is
\* constructed on it.
analyze_token ==
    /\ pc = "flows_done" /\ extractor = "fetcher"
    /\ Len(user_flows) > 0
    /\ suite' = "WTD"
    /\ pc' = "flows_ready"
    /\ UNCHANGED <<netVars, user_flows, results, suspicious, flowVars, riskVars, funVars>>

InitPipeline ==
    /\ pc = "flows_done"
    /\ extractor \in {"detector", "fetcher"}
    /\ df = <<>>
    /\ \E k \in 0..MaxRiskRuns :
         \E s \in [1..k -> Wallets2], e \in [1..k -> Wallets2], n \in [1..k -> RiskRunLengths] :
            user_flows = FlowTable([i \in 1..k |->
                            [start_wallet |-> s[i], end_wallet |-> e[i],
                             timestamp |-> i * HoursPerTick, n |-> n[i]]])
    /\ DetIdle /\ RiskIdle /\ FunIdle
    /\ NetIdle

NextPipeline ==
    \/ TB_main_no_flows
    \/ TB_call_run_all_analyses
    \/ TB_run_all_analyses_empty
    \/ TB_run_all_analyses
    \/ analyze_token_no_data
    \/ analyze_token
    \/ WTD_run_all_analyses
    \/ classify_wallets
    \/ classify_wallets_raises
    \/ create_risk_analysis

SpecPipeline == InitPipeline /\ [][NextPipeline]_vars

\* C20: with an empty flow table no detector, no bot classification and no
\* risk fusion runs: nothing has a result, and the pipeline is before its
\* test of the table or at its no-data outcome.
C20_EmptyTableShortCircuits ==
    Len(user_flows) = 0 =>
        /\ results = <<>> /\ suspicious = {}
        /\ classification_results = <<>>
        /\ risk_results = <<>> /\ token_risk_data = <<>>
        /\ pc \in {"flows_done", "flows_ready", "no_data"}
        /\ pc = "flows_ready" => suite = "TB"

\* The fetcher pipeline has ended with no data.
C20_Witness ==
    /\ pc = "no_data" /\ extractor = "fetcher"
    /\ Len(user_flows) = 0
    /\ results = <<>>

\* The transaction-based suite has returned its empty result.
C20_DetectorNoData ==
    /\ pc = "no_data" /\ extractor = "detector" /\ suite = "TB"
    /\ Len(user_flows) = 0
    /\ results = <<>>


(***************************************************************************)
(* Hops with a missing address, on the flow extraction of SpecFlow.        *)
(***************************************************************************)

\* The hops of a transaction that carry both addresses.
CompleteHops(tx) ==
    {i \in DOMAIN df : /\ df[i].transaction_hash = tx
                       /\ df[i].from_address # NoneVal
                       /\ df[i].to_address # NoneVal}

\* C21: hops with a missing address are removed before the extraction, for
\* both extractors: a transaction has a flow exactly if its hops with both
\* addresses have a non-intermediary sender and a non-intermediary receiver,
\* and the flow's start and end are taken from those hops.
C21_NullHopsDropped ==
    pc = "flows_done" =>
        \A tx \in TxHashes :
            LET G == CompleteHops(tx)
                S == {i \in G : df[i].from_entity_type \notin INTERMEDIARIES}
                R == {i \in G : df[i].to_entity_type \notin INTERMEDIARIES}
                F == {k \in DOMAIN user_flows : user_flows[k].transaction_hash = tx}
            IN /\ (F # {}) <=> (S # {} /\ R # {})
               /\ \A k \in F :
                    /\ \E i \in S : user_flows[k].start_wallet = df[i].from_address
                    /\ \E i \in R : user_flows[k].end_wallet = df[i].to_address

\* What the code keeps: extract_user_flows works on the table its
\* constructor has cleaned.
NullHopsDroppedByDetector ==
    extractor = "detector" => C21_NullHopsDropped


(***************************************************************************)
(* The suspicion rule of the risk table, on the risk tables of SpecRisk.   *)
(***************************************************************************)

SuspicionDetectors ==
    {"self_transfers", "rapid_roundtrips", "high_frequency_pairs", "circular_patterns"}

\* C22: in the risk table the wash flags of a wallet name only the four
\* suspicion detectors, and a wallet has a flag exactly if it is wash
\* trading, that is in the suspicious-wallet set of the detector suite.
C22_OneSuspicionRule ==
    pc = "risk_done" =>
        \A i \in DOMAIN risk_results :
            LET row == risk_results[i]
            IN /\ Rows(row.wash_trading_flags) \subseteq SuspicionDetectors
               /\ (row.wash_flag_count >= 1) <=> row.is_wash_trading
               /\ row.is_wash_trading <=> (row.wallet \in suspicious)

\* What the code keeps: a wash-trading wallet is one of the suspicious set
\* and has a flag of one of the four detectors; the flags of the other rows
\* name the volume concentration only.
SuspicionRulesOfCode ==
    pc = "risk_done" =>
        \A i \in DOMAIN risk_results :
            LET row == risk_results[i]
            IN /\ row.is_wash_trading <=> (row.wallet \in suspicious)
               /\ row.is_wash_trading <=>
                     (Rows(row.wash_trading_flags) \cap SuspicionDetectors # {})
               /\ Rows(row.wash_trading_flags)
                     \subseteq SuspicionDetectors \cup {"volume_concentration"}


(***************************************************************************)
(* HolderAnalyzer.calculate_concentration_metrics.  args is df_holders,    *)
(* the holder table sorted by falling "Holding %" as the extraction leaves *)
(* it; a share is a whole number of units; the Gini coefficient is the     *)
(* exact fraction num / den (den = 0: the division of the code by zero).   *)
(***************************************************************************)

\* Bounds of SpecGini: the number of holders and the largest share.
MaxHolders == 4
MaxShare == 4

\* df.head(k)
head(rows, k) == SubSeq(rows, 1, Min2(k, Len(rows)))

\* A rank that starts at 0.
rank_from_zero(position) == position - 1

\* index = sorted_holdings.index + 1: the rank of the row at a position
\* (positions are counted from 1 here, the index from 0).
rank(position) == position

gini_coefficient(df_holders) ==
    LET sorted_holdings == SortValues(df_holders, "holding_pct")
        n           == Len(sorted_holdings)
        numerator   == SumSeq([i \in 1..n |-> 2 * rank(i) * sorted_holdings[i].holding_pct])
        denominator == n * SumSeq([i \in 1..n |-> sorted_holdings[i].holding_pct])
    IN IF n = 0 THEN Rat(0, 1)
       ELSE Rat(numerator * n - (n + 1) * denominator, denominator * n)

calculate_concentration_metrics ==
    /\ pc = "metrics_call"
    /\ ret' = IF Len(args) = 0
              THEN [top_3_ratio |-> 0, top_10_ratio |-> 0, whale_dominance |-> 0,
                    gini_coefficient |-> Rat(0, 1)]
              ELSE [top_3_ratio |-> SumSeq([i \in DOMAIN head(args, 3) |-> args[i].holding_pct]),
                    top_10_ratio |-> SumSeq([i \in DOMAIN head(args, 10) |-> args[i].holding_pct]),
                    whale_dominance |-> args[1].holding_pct,
                    gini_coefficient |-> gini_coefficient(args)]
    /\ pc' = "metrics_done"
    /\ UNCHANGED <<netVars, user_flows, args, flowVars, detVars, riskVars>>

InitGini ==
    /\ pc = "metrics_call"
    /\ \E n \in 0..MaxHolders :
         \E shares \in {s \in [1..n -> 0..MaxShare] : \A i \in 1..n : i > 1 => s[i - 1] >= s[i]} :
            args = [i \in 1..n |-> [rank |-> i, holding_pct |-> shares[i]]]
    /\ ret = <<>>
    /\ user_flows = <<>>
    /\ FlowIdle /\ DetIdle /\ RiskIdle
    /\ NetIdle

NextGini == calculate_concentration_metrics

SpecGini == InitGini /\ [][NextGini]_vars

\* C23: the Gini coefficient is 0 when all n holders have the same positive
\* share, and 1 - 1/n when one holder has everything and the others nothing.
C23_GiniEndpoints ==
    (pc = "metrics_done" /\ Len(args) > 0) =>
        LET n == Len(args)
            g == ret.gini_coefficient
        IN /\ (args[1].holding_pct > 0 /\ \A i \in 1..n : args[i].holding_pct = args[1].holding_pct)
                => (g.den > 0 /\ g.num = 0)
           /\ (args[1].holding_pct > 0 /\ \A i \in 2..n : args[i].holding_pct = 0)
                => (g.den > 0 /\ g.num * n = (n - 1) * g.den)

\* Four holders, one of them with everything: the coefficient is 3/4.
C23_Witness ==
    /\ pc = "metrics_done"
    /\ Len(args) = 4
    /\ args[1].holding_pct > 0 /\ \A i \in 2..4 : args[i].holding_pct = 0
    /\ ret.gini_coefficient.num * 4 = 3 * ret.gini_coefficient.den
    /\ ret.gini_coefficient.den > 0



(***************************************************************************)
(* TransactionBasedWashTradingDetector.analyze_volume_concentration on its *)
(* own: user_flows is a table of at least one flow whose USD values may be *)
(* 0 (a transfer without a price), args.top_n the number of rows asked     *)
(* for.                                                                    *)
(***************************************************************************)

\* Bounds of SpecVolume: the number of flows and the largest USD value.
MaxVolumeFlows == 2
MaxUsd == 2

TB_analyze_volume_concentration ==
    /\ pc = "volume_call"
    /\ results' = [volume_concentration |->
                      analyze_volume_concentration(user_flows, args.top_n)]
    /\ pc' = "volume_done"
    /\ UNCHANGED <<netVars, user_flows, flowVars, suite, suspicious, riskVars, funVars>>

InitVolume ==
    /\ pc = "volume_call"
    /\ \E k \in 1..MaxVolumeFlows :
         \E from \in [1..k -> Wallets], to \in [1..k -> Wallets], usd \in [1..k -> 0..MaxUsd] :
            user_flows = [i \in 1..k |->
                            [transaction_hash |-> i,
                             start_wallet |-> from[i],
                             end_wallet |-> to[i],
                             timestamp |-> 0,
                             usd_value |-> usd[i],
                             is_self_transfer |-> (from[i] = to[i])]]
    /\ \E n \in {1, 2, top_n} : args = [top_n |-> n]
    /\ ret = <<>>
    /\ suite = "TB" /\ results = <<>> /\ suspicious = {}
    /\ FlowIdle /\ RiskIdle
    /\ NetIdle

NextVolume == TB_analyze_volume_concentration

SpecVolume == InitVolume /\ [][NextVolume]_vars

\* The USD value that the flows of the table send from (side "start_wallet")
\* or to (side "end_wallet") a wallet; nothing on that side is 0.
SideVolume(side, w) ==
    SumSeq([i \in DOMAIN user_flows |->
               IF user_flows[i][side] = w THEN user_flows[i].usd_value ELSE 0])

WalletVolume(w) == SideVolume("start_wallet", w) + SideVolume("end_wallet", w)

FlowWallets ==
    {user_flows[i].start_wallet : i \in DOMAIN user_flows}
        \cup {user_flows[i].end_wallet : i \in DOMAIN user_flows}

\* The volume of all wallets together: every flow counts on both of its sides.
AllWalletsVolume == 2 * SumSeq([i \in DOMAIN user_flows |-> user_flows[i].usd_value])

\* The fraction is the number p.
IsPercent(fraction, p) == fraction.den # 0 /\ fraction.num = p * fraction.den

\* a <= b for two fractions of one positive denominator.
PercentLeq(a, b) == a.den > 0 /\ a.den = b.den /\ a.num <= b.num

\* The ranked list of the claim; its percentages are required for the tables
\* that "defined" admits.
VolumeConcentrationHolds(defined) ==
    pc = "volume_done" =>
        LET rows == results["volume_concentration"]
            listed == Cardinality(rows)
        IN /\ {r.rank : r \in rows} = 1..listed
           /\ listed = Min2(args.top_n, Cardinality(FlowWallets))
           /\ \A r \in rows :
                /\ r.wallet \in FlowWallets
                /\ r.total_volume_usd = WalletVolume(r.wallet)
                /\ \A w \in FlowWallets :
                      WalletVolume(w) > r.total_volume_usd =>
                          \E q \in rows : q.wallet = w /\ q.rank < r.rank
           /\ \A r, q \in rows : r.rank < q.rank => r.total_volume_usd >= q.total_volume_usd
           /\ defined =>
                /\ \A r \in rows :
                      /\ r.volume_percentage.den # 0
                      /\ r.volume_percentage.num * AllWalletsVolume
                            = 100 * WalletVolume(r.wallet) * r.volume_percentage.den
                /\ \A r, q \in rows :
                      r.rank < q.rank => PercentLeq(r.cumulative_percentage, q.cumulative_percentage)
                /\ listed = Cardinality(FlowWallets) =>
                      \A r \in rows : r.rank = listed => IsPercent(r.cumulative_percentage, 100)

C24_Unpriced ==
    /\ pc = "volume_done"
    /\ AllWalletsVolume = 0
    /\ \A r \in results["volume_concentration"] : r.cumulative_percentage.den = 0



\* A worker is between its read of a class's list and its append to it.
InLimiterSection(i) ==
    threads[i].pc \in {"prune_write", "check", "sleeping", "append"}

\* The admission timestamps of a class that no worker's pruning may drop: no
\* worker has read a time at which the timestamp is a window old.
LiveAdmissions(c) ==
    {threads[i].admitted_at : i \in {j \in DOMAIN threads :
        /\ threads[j].pc = "admitted"
        /\ threads[j].endpoint_type = c
        /\ \A k \in DOMAIN threads : threads[k].now - threads[j].admitted_at < window}}

\* C25: the read-modify-write of a class's timestamp list is mutually
\* exclusive among the pool workers: no two workers of a class are inside it
\* together, no two workers are both admitted past the cap of one window, and
\* no admission timestamp is lost from the list.
C25_LimiterExclusive ==
    /\ \A i, j \in DOMAIN threads :
          (i # j /\ threads[i].endpoint_type = threads[j].endpoint_type)
              => ~(InLimiterSection(i) /\ InLimiterSection(j))
    /\ \A i, j \in DOMAIN threads :
          (/\ i # j
           /\ threads[i].pc = "admitted" /\ threads[j].pc = "admitted"
           /\ threads[i].endpoint_type = "heavy" /\ threads[j].endpoint_type = "heavy")
              => \/ threads[i].admitted_at >= threads[j].admitted_at + window
                 \/ threads[j].admitted_at >= threads[i].admitted_at + window
    /\ \A c \in EndpointTypes :
          \A t \in LiveAdmissions(c) : \E k \in DOMAIN request_times[c] : request_times[c][k] = t

\* What the code keeps: a worker alone in its class is never disturbed, and
\* every admission is appended to the list at the time it is admitted.
LimiterAloneKeepsList ==
    \A i \in DOMAIN threads :
        (\A j \in DOMAIN threads : j # i => threads[j].endpoint_type # threads[i].endpoint_type)
            => (threads[i].pc = "admitted"
                   => request_times[threads[i].endpoint_type] = <<threads[i].admitted_at>>)

\* Two heavy workers are admitted at the same tick and the list holds one
\* timestamp only: the other was overwritten by a stale pruned list.
LostAdmission ==
    /\ Len(threads) = 2
    /\ \A i \in DOMAIN threads : threads[i].pc = "admitted" /\ threads[i].endpoint_type = "heavy"
    /\ threads[1].admitted_at = threads[2].admitted_at
    /\ Len(request_times["heavy"]) = 1



(***************************************************************************)
(* One cache file under pool workers that save to it and load from it with *)
(* no lock.  _save_to_cache opens the file for writing, which empties it,  *)
(* and json.dump reaches the file as one write per filled buffer, each at  *)
(* the offset of the writer's own descriptor; _load_from_cache reads the   *)
(* file as it is at that moment.  cache is the file: content is its        *)
(* sequence of buffer-sized chunks, a chunk being part k of a payload or a *)
(* hole left by a write beyond the end.  A payload is a JSON object.       *)
(***************************************************************************)

\* Bounds of SpecCacheRace: the workers and the chunks of a payload.
MaxCacheWorkers == 3
MaxChunks == 2

\* The answers of the provider to the request of the key.
CachePayloads == {"P1", "P2"}

Hole == [payload |-> "hole", part |-> 0, last |-> FALSE]

\* Part k of a payload of n chunks.
Chunk(payload, k, n) == [payload |-> payload, part |-> k, last |-> (k = n)]

\* open(cache_path, 'w'): the file exists and is empty.
open_w(file) == [exists |-> TRUE, content |-> <<>>]

\* write() of a chunk at position k of the writer's descriptor: the file is
\* extended by holes if it ends before k.
write_at(file, k, chunk) ==
    [file EXCEPT !.content =
        [j \in 1..Max2(Len(file.content), k) |->
            IF j = k THEN chunk
            ELSE IF j <= Len(file.content) THEN file.content[j] ELSE Hole]]

\* The text of the file is one JSON document: the parts of a document in
\* their order, ending with a closing part and with nothing after it.
IsDocument(content) ==
    /\ Len(content) > 0
    /\ \A k \in DOMAIN content :
          /\ content[k].payload # "hole"
          /\ content[k].part = k
          /\ content[k].last <=> (k = Len(content))

\* _load_from_cache on a file young enough: the values it can return.  A
\* missing file and a text json.load rejects give None; a document made of
\* the parts of two payloads is rejected or decoded to an object that is
\* neither of them, as its text happens to be.
load_json(file) ==
    IF ~file.exists \/ ~IsDocument(file.content) THEN {NoneVal}
    ELSE IF \A k \in DOMAIN file.content : file.content[k].payload = file.content[1].payload
         THEN {file.content[1].payload}
         ELSE {"mixed", NoneVal}

\* with open(cache_path, 'w') as f
CR_Open(i) ==
    /\ pc = "cache_race"
    /\ threads[i].role = "save" /\ threads[i].pc = "start"
    /\ cache' = open_w(cache)
    /\ threads' = [threads EXCEPT ![i].pc = "writing"]
    /\ UNCHANGED <<pc, clock, request_times, batch, http, call, pipeVars>>

\* json.dump(data, f): the next buffer is written; the last one when the
\* file is closed.
CR_Write(i) ==
    /\ pc = "cache_race"
    /\ threads[i].role = "save" /\ threads[i].pc = "writing"
    /\ LET k == threads[i].offset + 1
           n == batch[threads[i].data]
       IN /\ cache' = write_at(cache, k, Chunk(threads[i].data, k, n))
          /\ threads' = [threads EXCEPT ![i].offset = k,
                                        ![i].pc = IF k = n THEN "done" ELSE "writing"]
    /\ UNCHANGED <<pc, clock, request_times, batch, http, call, pipeVars>>

\* _load_from_cache(cache_path)
CR_Load(i) ==
    /\ pc = "cache_race"
    /\ threads[i].role = "load" /\ threads[i].pc = "start"
    /\ \E value \in load_json(cache) :
          threads' = [threads EXCEPT ![i].pc = "done", ![i].data = value]
    /\ UNCHANGED <<pc, clock, request_times, cache, batch, http, call, pipeVars>>

\* batch is the number of chunks of each payload; a saving worker holds the
\* payload it fetched.
InitCacheRace ==
    /\ pc = "cache_race"
    /\ cache = [exists |-> FALSE, content |-> <<>>]
    /\ \E size \in [CachePayloads -> 1..MaxChunks] : batch = size
    /\ \E n \in 1..MaxCacheWorkers :
         \E role \in [1..n -> {"save", "load"}], data \in [1..n -> CachePayloads] :
            threads = [i \in 1..n |->
                          [role |-> role[i], pc |-> "start", offset |-> 0,
                           data |-> IF role[i] = "save" THEN data[i] ELSE NoneVal]]
    /\ clock = 0 /\ request_times = <<>> /\ http = <<>> /\ call = <<>>
    /\ PipelineIdle

NextCacheRace ==
    \E i \in DOMAIN threads : CR_Open(i) \/ CR_Write(i) \/ CR_Load(i)

SpecCacheRace == InitCacheRace /\ [][NextCacheRace]_vars

\* The payloads that a worker has written in full.
WrittenInFull ==
    {threads[i].data : i \in {j \in DOMAIN threads :
        threads[j].role = "save" /\ threads[j].pc = "done"}}

\* C26: with no lock, whatever the interleaving of the workers that save to
\* one cache file and of those that load it, a load returns None or a payload
\* that some worker wrote in full, never a partial or mixed one.
C26_CacheRaceSafe ==
    \A i \in DOMAIN threads :
        (threads[i].role = "load" /\ threads[i].pc = "done")
            => (threads[i].data = NoneVal \/ threads[i].data \in WrittenInFull)

\* What holds without a lock: payloads of one buffer, which reach the file
\* in one write, are loaded whole or not at all.
OneWritePayloadsSafe ==
    (\A p \in CachePayloads : batch[p] = 1) => C26_CacheRaceSafe

\* As long as at most one worker saves, a load never decodes a mixture.
OneSaverNeverMixed ==
    Cardinality({i \in DOMAIN threads : threads[i].role = "save"}) <= 1
        => \A i \in DOMAIN threads : threads[i].data # "mixed"

\* Two savers wrote different payloads of two chunks each, and a load
\* returned the first chunk of one followed by the second of the other.
MixedPayloadLoaded ==
    /\ \E i \in DOMAIN threads : threads[i].role = "load" /\ threads[i].data = "mixed"
    /\ Len(cache.content) = 2
    /\ cache.content[1].payload # cache.content[2].payload



\* The other wallet of the pair A, B.
OtherWallet(w) == IF w = "A" THEN "B" ELSE IF w = "B" THEN "A" ELSE w

\* The table with the addresses of A and B exchanged.
Relabelled(flows) ==
    [i \in DOMAIN flows |->
        [flows[i] EXCEPT !.start_wallet = OtherWallet(@), !.end_wallet = OtherWallet(@)]]

\* The flagged pairs of two different wallets with their counts.
FlaggedCounts(rows) ==
    {<<{r.wallet_a, r.wallet_b}, r.roundtrip_count>> : r \in {q \in rows : q.wallet_a # q.wallet_b}}

\* C27: a round-trip is recognised whichever wallet of the pair sent first:
\* exchanging the addresses of the two wallets changes neither the matched
\* count of the pair nor whether it is flagged.
C27_RelabellingInvariant ==
    pc = "roundtrips_done" =>
        FlaggedCounts(results["rapid_roundtrips"])
            = FlaggedCounts(detect_rapid_roundtrips(Relabelled(user_flows), time_threshold_hours))

\* B sends first and A returns twice inside the window: the pair is not
\* flagged, and it is flagged with count 2 once the addresses are exchanged.
ReturnToSortedFirstMissed ==
    /\ pc = "roundtrips_done"
    /\ Len(user_flows) = 3
    /\ user_flows[1].start_wallet = "B" /\ user_flows[1].end_wallet = "A"
    /\ \A i \in 2..3 : /\ user_flows[i].start_wallet = "A" /\ user_flows[i].end_wallet = "B"
                       /\ user_flows[i].timestamp > user_flows[1].timestamp
                       /\ user_flows[i].timestamp <= user_flows[1].timestamp + time_threshold_hours
    /\ results["rapid_roundtrips"] = {}
    /\ MatchedCount("B", "A") = 2

\* What the code counts: the sends of the wallet whose address sorts first
\* that the other wallet returns inside the window.
CountsSendsOfSortedFirst ==
    pc = "roundtrips_done" =>
        \A r \in results["rapid_roundtrips"] :
            r.wallet_a # r.wallet_b => r.roundtrip_count = MatchedCount(r.wallet_a, r.wallet_b)



\* The GETs api_call has made or is about to make in the call in progress.
RequestsIssued == Len(call.log) + IF pc = "api_attempt" THEN 1 ELSE 0

\* C28: every HTTP request of api_call, each retry after a 429 or a
\* transport error included, is preceded by its own admission through the
\* rate limiter: a call has passed the limiter as many times as it has
\* issued requests.
C28_EveryRequestAdmitted ==
    call.n > 0 => call.limited = RequestsIssued

\* What the code does: one admission for a call that misses the cache,
\* whatever the number of its requests, and none for a hit.
OneAdmissionPerCall ==
    call.n > 0 => call.limited = IF RequestsIssued > 0 THEN 1 ELSE 0

\* A call that made three requests, two of them retries, behind one admission.
RetriesNotAdmitted ==
    /\ pc = "api_returned" /\ call.n > 0
    /\ Len(call.log) = retries
    /\ call.log[1].status = "429" /\ call.log[2].status = "error"
    /\ call.limited = 1
    /\ Len(request_times["heavy"]) + Len(request_times["standard"]) <= call.n



\* The cache files that are new or rewritten in a step.
FilesWritten ==
    {path \in DOMAIN cache' : path \notin DOMAIN cache \/ cache'[path] # cache[path]}

\* A step that changes the cache is the return of a fetched payload, and it
\* writes that payload to one file and removes none.
WriteIsFetchedPayload ==
    cache' # cache =>
        /\ pc = "api_attempt" /\ pc' = "api_returned"
        /\ call'.ret \in Payloads
        /\ call'.log[Len(call'.log)].status = "200"
        /\ DOMAIN cache \subseteq DOMAIN cache'
        /\ \A path \in FilesWritten : cache'[path].data = call'.ret
        /\ Cardinality(FilesWritten) = 1

\* The cache files hold what the history of stores says: one file per stored
\* request at most, whatever the order and the null items of its parameter
\* dicts, each with a payload stored for a request.
KeyedByRequest ==
    /\ Cardinality(DOMAIN cache) <= Cardinality({r \in RequestIds : http[r].stored})
    /\ \A path \in DOMAIN cache :
          \E r \in RequestIds : http[r].stored /\ http[r].data = cache[path].data

\* A call answered from the cache returns the payload stored for its
\* request; a call for a request with no stored payload goes to the network.
AbsenceNotServed ==
    (call.n > 0 /\ pc \in {"api_attempt", "api_returned", "api_raised"}) =>
        /\ (pc = "api_returned" /\ call.log = <<>>) =>
              (call.prior.stored /\ call.ret = call.prior.data /\ call.ret \in Payloads)
        /\ ~call.prior.stored => (call.limited = 1 /\ RequestsIssued >= 1)

\* C29: only a fetched payload is ever written to the cache; a call that
\* ends in absence (404, 429 or errors up to the last attempt) leaves the
\* cache as it was; the entry of a request is keyed by its endpoint and its
\* non-null parameters, in whatever order they are given; an absence is
\* never served from the cache, and a later call for the request goes to the
\* network again.
C29_CacheHoldsFetchedOnly ==
    /\ [][WriteIsFetchedPayload]_vars
    /\ [](KeyedByRequest /\ AbsenceNotServed)

\* The third call hits the file that the first call stored under the other
\* order of the same two parameters, after a second call that went to the
\* network.
C29_Witness ==
    /\ pc = "api_returned" /\ call.n = 3
    /\ Len(call.items) = 2
    /\ call.items[1][1] = "includeTags"
    /\ call.log = <<>>
    /\ call.ret \in Payloads
    /\ call.prior.stored /\ call.prior.at = 0
    /\ Cardinality(DOMAIN cache) = 1
    /\ \A path \in DOMAIN cache : path[2][1][1] = "includeEntityPredictions"
    /\ Len(request_times["standard"]) + Len(request_times["heavy"]) >= 2



\* The number of flows of the table that name a wallet as start or as end
\* (a self-transfer names it twice, as the two value_counts do).
FlowsNaming(w) ==
    Cardinality({i \in DOMAIN user_flows : user_flows[i].start_wallet = w})
        + Cardinality({i \in DOMAIN user_flows : user_flows[i].end_wallet = w})

WalletsOfTable ==
    {user_flows[i].start_wallet : i \in DOMAIN user_flows}
        \cup {user_flows[i].end_wallet : i \in DOMAIN user_flows}

ClassifiedWallets == {classification_results[i].wallet : i \in DOMAIN classification_results}

\* C30: classify_wallets classifies exactly the wallets whose flows, as start
\* wallet or as end wallet, number at least min_transactions, those that
\* only ever receive included, and it completes without error when no
\* wallet is eligible.
C30_ClassifiesEligible ==
    /\ pc = "classified" =>
          ClassifiedWallets = {w \in WalletsOfTable : FlowsNaming(w) >= classify_min_transactions}
    /\ pc # "classify_raised"

\* What the code classifies: the eligible wallets that have sent at least
\* once, and only if there is one.
ClassifiesEligibleSenders ==
    /\ pc = "classified" =>
          /\ ClassifiedWallets =
                {w \in WalletsOfTable :
                    /\ FlowsNaming(w) >= classify_min_transactions
                    /\ \E i \in DOMAIN user_flows : user_flows[i].start_wallet = w}
          /\ ClassifiedWallets # {}
    /\ pc = "classify_raised" =>
          \A w \in WalletsOfTable :
              \/ FlowsNaming(w) < classify_min_transactions
              \/ \A i \in DOMAIN user_flows : user_flows[i].start_wallet # w

\* A wallet with min_transactions flows, all of them received, is left out.
ReceiverNotClassified ==
    /\ pc = "classified"
    /\ \E w \in WalletsOfTable :
          /\ FlowsNaming(w) >= classify_min_transactions
          /\ \A i \in DOMAIN user_flows : user_flows[i].start_wallet # w
          /\ w \notin ClassifiedWallets

\* No wallet has min_transactions flows and classify_wallets has raised.
NoEligibleRaises ==
    /\ pc = "classify_raised"
    /\ user_flows # <<>>
    /\ \A w \in WalletsOfTable : FlowsNaming(w) < classify_min_transactions

====
